---- MODULE Spec2Model ----
(***************************************************************************)
(* AgentDoor gate (packages/fastapi-adapter): the in-memory agent store    *)
(* and the register / verify / auth handlers and the agent_required guard  *)
(* of the FastAPI middleware.                                              *)
(*                                                                         *)
(* Granularity.  The store's operations contain no await and are atomic.   *)
(* A handler is resumed after each `await self._store.<op>(...)`, so a     *)
(* handler with two store calls is two steps: the first store call with    *)
(* the checks that follow it, then the second store call with the          *)
(* response.  Between the two steps any other handler step may run.        *)
(*                                                                         *)
(* Strings are TLA+ strings.  Values drawn from secrets.token_urlsafe are  *)
(* the prefix followed by the number of the draw (a CSPRNG draw never      *)
(* repeats).  Time is counted in ticks, TicksPerSec ticks to the second.   *)
(* An Ed25519 signature is the pair (message, public key of the signing    *)
(* key); it verifies under exactly that message and that key.              *)
(***************************************************************************)
EXTENDS Integers, Sequences, FiniteSets, Bags, TLC

\* ------------------------------------------------------------------------
\* Bounds
\* ------------------------------------------------------------------------
MaxReg == 1
MaxTokens == 1
MaxReplays == 1
MaxClock == 2
MaxCalls == 2
TicksPerSec == 1
MaxStarted == 3
MaxKeypairs == 2
KeyLength == 3
MaxDrift == 3

VARIABLES
    config,             \* AgentDoorConfig, frozen at construction
    discovery_doc,      \* AgentDoor._discovery_doc
    now,                \* time.time(), in ticks
    pending,            \* InMemoryAgentStore._pending
    agents,             \* InMemoryAgentStore._agents
    agents_by_api_key,  \* InMemoryAgentStore._agents_by_api_key
    tokens,             \* InMemoryAgentStore._tokens
    drawn,              \* number of secrets drawn so far, per kind of identifier
    calls,              \* handlers suspended at their second store await
    response,           \* the response sent by the step just taken
    enrolled,           \* history: the register request behind each registration_id
    origin,             \* history: the verify request behind each agent_id
    issued              \* history: the auth request behind each token

VARIABLES
    http_client,        \* Agent._client is not None
    base_url,           \* Agent._base_url
    discovery,          \* Agent._discovery
    credential,         \* the Credential object Agent._credential refers to
    saved,              \* the Credential the credential store has written out
    tasks,              \* calls on the Agent suspended at an await
    outcome,            \* how the call that ended in the step just taken ended
    started             \* number of calls made on the Agent so far

VARIABLES
    memory,             \* InMemoryCredentialStore._store
    cache,              \* FileCredentialStore._cache
    file,               \* the content of the file at FileCredentialStore._path
    answers             \* what the call just made on the two stores returned

VARIABLES
    keypairs,           \* number of keypairs SigningKey.generate() has drawn
    verdict             \* what the function just called returned (crypto, comparisons)

VARIABLES
    wire                \* the HTTP exchange between the Agent and the gate

vars == <<config, discovery_doc, now, pending, agents, agents_by_api_key, tokens, drawn,
          calls, response, enrolled, origin, issued,
          http_client, base_url, discovery, credential, saved, tasks, outcome, started,
          memory, cache, file, answers,
          keypairs, verdict,
          wire>>

\* The functions of agentdoor.crypto and the keypairs they have drawn.
crypto == <<keypairs, verdict>>

\* The two credential stores compared with each other.
shelf == <<memory, cache, file, answers>>

\* The gate, without its clock.
gate == <<config, discovery_doc, pending, agents, agents_by_api_key, tokens, drawn,
          calls, response, enrolled, origin, issued>>

\* The Agent and its credential store.
agent == <<http_client, base_url, discovery, credential, saved, tasks, outcome, started>>

store == <<pending, agents, agents_by_api_key, tokens>>

\* ------------------------------------------------------------------------
\* Values
\* ------------------------------------------------------------------------
Range(s) == {s[i] : i \in DOMAIN s}

None == [is_none |-> TRUE]

EmptyMap == [k \in {} |-> None]

\* dict.pop / del: the mapping without the key
Without(map, key) == [k \in DOMAIN map \ {key} |-> map[k]]

\* dict[key] = value
With(map, key, value) == [k \in DOMAIN map \cup {key} |-> IF k = key THEN value ELSE map[k]]

\* dict.get(key)
Get(map, key) == IF key \in DOMAIN map THEN map[key] ELSE None

\* The scope names of the model, in lexicographic order.
ScopeOrder == <<"admin", "delete", "read", "write">>

\* sorted(names), names a set of scope names
sorted(names) == SelectSeq(ScopeOrder, LAMBDA n : n \in names)

\* ', '.join(names)
RECURSIVE join(_)
join(names) ==
    IF names = <<>> THEN ""
    ELSE IF Len(names) = 1 THEN names[1]
    ELSE names[1] \o ", " \o join(Tail(names))

\* Variant: only the length of the prefix is checked.
startswith_length_only(s, prefix) == Len(s) >= Len(prefix)

\* str.startswith
startswith(s, prefix) ==
    /\ Len(s) >= Len(prefix)
    /\ SubSeq(s, 1, Len(prefix)) = prefix

\* AgentDoorConfig: the configuration the gate is constructed with.
AgentDoorConfig(scopes, token_ttl_seconds, max_timestamp_drift) ==
    [service_name |-> "AgentDoor Service",
     scopes |-> scopes, token_ttl_seconds |-> token_ttl_seconds,
     max_timestamp_drift |-> max_timestamp_drift,
     route_prefix |-> "/agentdoor"]

\* A service offering read and write, with tokens that live one second and
\* timestamps accepted up to one second away.
ServiceConfig == AgentDoorConfig(<<"read", "write">>, 1, 1)

\* A service constructed with the default, empty list of scopes.
OpenConfig == AgentDoorConfig(<<>>, 1, 1)

\* The service mounted under a prefix of its own, with a name of its own.
CustomConfig ==
    [ServiceConfig EXCEPT !.service_name = "Custom", !.route_prefix = "/custom/auth"]

Configs == {ServiceConfig, OpenConfig}

PublicKeys == {"pk1", "pk2"}

\* A signature made with the secret key of public key pk over message.
sign(message, pk) == [message |-> message, key |-> pk]

\* A signature string that does not decode to an Ed25519 signature.
Undecodable == [message |-> "", key |-> "undecodable"]

\* int(timestamp): the strings of the model that parse as an integer.
IntLiterals ==
    ("0" :> 0) @@ ("+1" :> 1) @@ ("1" :> 1) @@ ("2" :> 2) @@ ("3" :> 3) @@ ("-1" :> (0 - 1))

\* The timestamps of auth requests: two integers and a string that is none.
Timestamps == {"0", "2", "soon"}

\* ------------------------------------------------------------------------
\* crypto.py
\* ------------------------------------------------------------------------
\* Variant: the signature is not checked against the registered key.
verify_signature_any_key(message, signature, public_key) ==
    /\ signature # Undecodable
    /\ signature.message = message

verify_signature(message, signature, public_key) ==
    /\ signature # Undecodable
    /\ public_key \in PublicKeys
    /\ signature.message = message
    /\ signature.key = public_key

\* int(time.time())
WholeSeconds(t) == t \div TicksPerSec

Abs(n) == IF n < 0 THEN 0 - n ELSE n

\* Variant: a timestamp exactly max_drift_seconds away is rejected.
is_timestamp_valid_within(timestamp, max_drift_seconds) ==
    IF timestamp \notin DOMAIN IntLiterals THEN FALSE
    ELSE Abs(WholeSeconds(now) - IntLiterals[timestamp]) < max_drift_seconds

\* Variant: any integer timestamp is accepted, however far from the clock.
is_timestamp_valid_any_drift(timestamp, max_drift_seconds) ==
    timestamp \in DOMAIN IntLiterals

is_timestamp_valid(timestamp, max_drift_seconds) ==
    IF timestamp \notin DOMAIN IntLiterals THEN FALSE
    ELSE Abs(WholeSeconds(now) - IntLiterals[timestamp]) <= max_drift_seconds

\* ------------------------------------------------------------------------
\* store.py: InMemoryAgentStore
\* ------------------------------------------------------------------------
PendingRegistration(registration_id, agent_name, public_key, challenge, scopes) ==
    [registration_id |-> registration_id, agent_name |-> agent_name,
     public_key |-> public_key, challenge |-> challenge, scopes |-> scopes]

AgentRecord(agent_id, agent_name, public_key, api_key, scopes) ==
    [agent_id |-> agent_id, agent_name |-> agent_name, public_key |-> public_key,
     api_key |-> api_key, scopes |-> scopes]

\* Variant: the token is issued for no scope.
TokenRecord_no_scopes(token, agent_id, expires_at, scopes) ==
    [token |-> token, agent_id |-> agent_id, expires_at |-> expires_at, scopes |-> <<>>]

TokenRecord(token, agent_id, expires_at, scopes) ==
    [token |-> token, agent_id |-> agent_id, expires_at |-> expires_at, scopes |-> scopes]

\* f"{prefix}{secrets.token_urlsafe(n)}", the k-th draw
token_urlsafe(prefix, k) == prefix \o ToString(k)

\* Each store operation is given by the value it returns and, when it
\* writes, by the mappings it leaves behind (<operation>_<mapping>).

create_pending_registration(agent_name, public_key, scopes) ==
    PendingRegistration(token_urlsafe("reg_", drawn.reg + 1), agent_name, public_key,
                        token_urlsafe("challenge_", drawn.reg + 1), scopes)

\* Variant: the registration is built but not put in the mapping.
create_pending_registration_pending_dropped(p) == pending

\* self._pending[registration_id] = pending
create_pending_registration_pending(p) == With(pending, p.registration_id, p)

get_pending_registration(registration_id) == Get(pending, registration_id)

\* Variant: the lookup evicts a registration once the clock has advanced,
\* as get_token does with an expired token.
get_pending_registration_expiring(registration_id) ==
    IF now > 0 THEN Without(pending, registration_id) ELSE pending

\* Variant: the lookup takes the registration out of the mapping.
get_pending_registration_popped(registration_id) == Without(pending, registration_id)

\* self._pending.get(registration_id) leaves the mapping as it is
get_pending_registration_pending(registration_id) == pending

\* The record complete_registration builds from the popped registration.
complete_registration(registration_id) ==
    LET p == pending[registration_id]
    IN  AgentRecord(token_urlsafe("agent_", drawn.agent + 1), p.agent_name, p.public_key,
                    token_urlsafe("ak_", drawn.agent + 1), p.scopes)

\* Variant: the registration is read but left in the mapping.
complete_registration_pending_kept(registration_id) == pending

\* self._pending.pop(registration_id)
complete_registration_pending(registration_id) == Without(pending, registration_id)

\* Variant: the record is not written to the first index.
complete_registration_agents_unwritten(record) == agents

\* self._agents[agent_id] = record
complete_registration_agents(record) == With(agents, record.agent_id, record)

\* Variant: the second index is keyed by agent_id as well.
complete_registration_agents_by_agent_id(record) ==
    With(agents_by_api_key, record.agent_id, record)

\* self._agents_by_api_key[api_key] = record
complete_registration_agents_by_api_key(record) ==
    With(agents_by_api_key, record.api_key, record)

get_agent(agent_id) == Get(agents, agent_id)

get_agent_by_api_key(api_key) == Get(agents_by_api_key, api_key)

\* self._tokens[token_record.token] = token_record
store_token_tokens(token_record) == With(tokens, token_record.token, token_record)

\* time.time() > record.expires_at
token_expired(record) == now > record.expires_at

get_token(token) ==
    IF token \notin DOMAIN tokens THEN None
    ELSE IF token_expired(tokens[token]) THEN None
    ELSE tokens[token]

\* Variant: an expired record is reported absent but not deleted.
get_token_tokens_kept(token) == tokens

\* del self._tokens[token] when the record has expired
get_token_tokens(token) ==
    IF token \in DOMAIN tokens /\ token_expired(tokens[token])
    THEN Without(tokens, token)
    ELSE tokens

\* ------------------------------------------------------------------------
\* Responses and suspended handlers
\* ------------------------------------------------------------------------
NoResponse == [op |-> "none", status |-> 0, detail |-> "", body |-> None]

\* No call on the Agent ended in the step just taken.
NoOutcome == [op |-> "none", result |-> "none"]

Response(op, status, detail, body) ==
    [op |-> op, status |-> status, detail |-> detail, body |-> body]

\* return <Response model>(...)
Ok(op, body) == Response(op, 200, "", body)

\* raise HTTPException(status_code, detail)
HTTPException(op, status, detail) == Response(op, status, detail, None)

\* The handler suspends at its second store await; frame holds the locals
\* it uses when it is resumed.  calls is the bag of suspended frames.
Suspend(frame) ==
    /\ BagCardinality(calls) < MaxCalls
    /\ calls' = calls (+) SetToBag({frame})
    /\ response' = NoResponse

\* The event loop resumes a suspended handler.
Resume(frame) ==
    /\ BagIn(frame, calls)
    /\ calls' = calls (-) SetToBag({frame})

Suspended(op) == {frame \in BagToSet(calls) : frame.op = op}

\* The handler answers without suspending.
Answer(resp) ==
    /\ response' = resp
    /\ UNCHANGED calls

\* ------------------------------------------------------------------------
\* The discovery document and the routes
\* ------------------------------------------------------------------------
\* ScopeDefinition(**s), s a scope of the configuration
ScopeDefinition(name) == [name |-> name, description |-> ""]

\* Variant: the endpoints are announced under the default prefix.
discovery_endpoint_default_prefix(route_prefix, suffix) == "/agentdoor" \o suffix

\* f"{route_prefix}<suffix>"
discovery_endpoint(route_prefix, suffix) == route_prefix \o suffix

\* The DiscoveryDocument AgentDoor.__init__ builds from its configuration.
DiscoveryDocumentOf(cfg) ==
    [agentdoor_version |-> "0.1",
     service_name |-> cfg.service_name,
     registration_endpoint |-> discovery_endpoint(cfg.route_prefix, "/register"),
     verification_endpoint |-> discovery_endpoint(cfg.route_prefix, "/register/verify"),
     auth_endpoint |-> discovery_endpoint(cfg.route_prefix, "/auth"),
     scopes |-> [i \in DOMAIN cfg.scopes |-> ScopeDefinition(cfg.scopes[i])],
     token_ttl_seconds |-> cfg.token_ttl_seconds]

WellKnownPath == "/.well-known/agentdoor.json"

\* AgentDoor._mount_routes: the handler mounted at each path.
mount_routes(cfg) ==
    (WellKnownPath :> "discovery")
    @@ (cfg.route_prefix \o "/register" :> "register")
    @@ (cfg.route_prefix \o "/register/verify" :> "verify")
    @@ (cfg.route_prefix \o "/auth" :> "auth")

\* The routes of the application the gate was mounted on.
routes == mount_routes(config)

\* GET of a path the discovery handler is mounted at.
handle_discovery(path) ==
    /\ path \in DOMAIN routes
    /\ routes[path] = "discovery"
    /\ Answer(Ok("discovery", discovery_doc))
    /\ UNCHANGED <<config, discovery_doc, now, store, drawn, enrolled, origin, issued>>

\* ------------------------------------------------------------------------
\* Initial state: a gate just constructed, with an empty in-memory store
\* ------------------------------------------------------------------------
Constructed(cfg) ==
    /\ config = cfg
    /\ discovery_doc = DiscoveryDocumentOf(cfg)
    /\ now = 0
    /\ pending = EmptyMap
    /\ agents = EmptyMap
    /\ agents_by_api_key = EmptyMap
    /\ tokens = EmptyMap
    /\ drawn = [reg |-> 0, agent |-> 0, token |-> 0]
    /\ calls = EmptyBag
    /\ response = NoResponse
    /\ enrolled = EmptyMap
    /\ origin = EmptyMap
    /\ issued = EmptyMap

\* Agent.__init__, with stored the Credential the credential store holds
\* from an earlier session (None when it holds none).
AgentConstructed(stored) ==
    /\ http_client = FALSE
    /\ base_url = None
    /\ discovery = None
    /\ credential = None
    /\ saved = stored
    /\ tasks = EmptyBag
    /\ outcome = NoOutcome
    /\ started = 0

\* InMemoryCredentialStore.__init__ and FileCredentialStore.__init__, the
\* file having the content on_disk (None when there is no file).
StoresConstructed(on_disk) ==
    /\ memory = <<>>
    /\ cache = None
    /\ file = on_disk
    /\ answers = [op |-> "none"]

\* No request of the Agent is on its way to the gate, and no response back.
Idle == [kind |-> "idle"]

\* The connection between the Agent and the gate carries nothing.
Unwired == wire = Idle

\* agentdoor.crypto imported: no keypair drawn, no call made.
CryptoLoaded ==
    /\ keypairs = 0
    /\ verdict = [op |-> "none"]

\* The gate of the test application; no call is made on the Agent.
Init == Constructed(ServiceConfig) /\ AgentConstructed(None) /\ StoresConstructed(None) /\ CryptoLoaded /\ Unwired

\* A gate constructed with either configuration.
InitAnyConfig ==
    /\ \E cfg \in Configs : Constructed(cfg)
    /\ AgentConstructed(None)
    /\ StoresConstructed(None) /\ CryptoLoaded /\ Unwired

\* ------------------------------------------------------------------------
\* POST <prefix>/register
\* ------------------------------------------------------------------------
RegistrationRequests ==
    { [agent_name |-> "a1", public_key |-> "pk1", scopes |-> <<"write", "read">>],
      [agent_name |-> "a2", public_key |-> "pk2", scopes |-> <<"write", "admin">>] }

\* Variant: no requested scope is ever found invalid.
invalid_scopes_none(scopes, available) == {}

\* set(body.scopes) - available
invalid_scopes(scopes, available) == Range(scopes) \ available

handle_register(body) ==
    LET available == Range(config.scopes)
        invalid == invalid_scopes(body.scopes, available)
    IN  IF available # {} /\ invalid # {}
        THEN /\ Answer(HTTPException("register", 400,
                           "Invalid scopes: " \o join(sorted(invalid))))
             /\ UNCHANGED <<config, discovery_doc, now, store, drawn, enrolled, origin, issued>>
        ELSE LET p == create_pending_registration(body.agent_name, body.public_key, body.scopes)
             IN  /\ drawn.reg < MaxReg
                 /\ pending' = create_pending_registration_pending(p)
                 /\ drawn' = [drawn EXCEPT !.reg = @ + 1]
                 /\ enrolled' = With(enrolled, p.registration_id,
                                     [request |-> body, challenge |-> p.challenge])
                 /\ Answer(Ok("register",
                               [registration_id |-> p.registration_id,
                                challenge |-> p.challenge]))
                 /\ UNCHANGED <<config, discovery_doc, now, agents, agents_by_api_key, tokens, origin, issued>>

\* ------------------------------------------------------------------------
\* POST <prefix>/register/verify
\* ------------------------------------------------------------------------
RegistrationIds == {token_urlsafe("reg_", k) : k \in 1..MaxReg}

Challenges == {token_urlsafe("challenge_", k) : k \in 1..MaxReg} \cup {"not-the-challenge"}

\* The signature is over the submitted challenge with either key, over
\* another string, or not a signature at all.
VerifyRequests ==
    UNION { [registration_id : RegistrationIds, challenge : {c},
             signature : {sign(c, k) : k \in PublicKeys}
                         \cup {sign("not-the-challenge", "pk1"), Undecodable}]
            : c \in Challenges }

\* Variant: the signature is checked before the challenge is compared.
handle_verify_signature_first(body) ==
    LET p == get_pending_registration(body.registration_id)
    IN  /\ IF p = None
           THEN Answer(HTTPException("verify", 404, "Registration not found or expired"))
           ELSE IF ~verify_signature(body.challenge, body.signature, p.public_key)
           THEN Answer(HTTPException("verify", 401, "Invalid signature"))
           ELSE IF body.challenge # p.challenge
           THEN Answer(HTTPException("verify", 400, "Challenge mismatch"))
           ELSE Suspend([op |-> "verify", body |-> body])
        /\ pending' = get_pending_registration_pending(body.registration_id)
        /\ UNCHANGED <<config, discovery_doc, now, agents, agents_by_api_key, tokens, drawn, enrolled, origin, issued>>

\* Up to `await self._store.complete_registration(...)`.
handle_verify(body) ==
    LET p == get_pending_registration(body.registration_id)
    IN  /\ IF p = None
           THEN Answer(HTTPException("verify", 404, "Registration not found or expired"))
           ELSE IF body.challenge # p.challenge
           THEN Answer(HTTPException("verify", 400, "Challenge mismatch"))
           ELSE IF ~verify_signature(body.challenge, body.signature, p.public_key)
           THEN Answer(HTTPException("verify", 401, "Invalid signature"))
           ELSE Suspend([op |-> "verify", body |-> body])
        /\ pending' = get_pending_registration_pending(body.registration_id)
        /\ UNCHANGED <<config, discovery_doc, now, agents, agents_by_api_key, tokens, drawn, enrolled, origin, issued>>

\* complete_registration and the response.  pop raises KeyError when the
\* registration is gone; the handler does not catch it (500).
handle_verify_complete(frame) ==
    LET body == frame.body
        id == body.registration_id
    IN  /\ Resume(frame)
        /\ IF id \notin DOMAIN pending
           THEN /\ response' = HTTPException("verify", 500, "Internal Server Error")
                /\ UNCHANGED <<config, discovery_doc, now, store, drawn, enrolled, origin, issued>>
           ELSE LET record == complete_registration(id)
                IN  /\ pending' = complete_registration_pending(id)
                    /\ agents' = complete_registration_agents(record)
                    /\ agents_by_api_key' = complete_registration_agents_by_api_key(record)
                    /\ drawn' = [drawn EXCEPT !.agent = @ + 1]
                    /\ origin' = With(origin, record.agent_id, body)
                    /\ response' = Ok("verify",
                                       [agent_id |-> record.agent_id,
                                        api_key |-> record.api_key])
                    /\ UNCHANGED <<config, discovery_doc, now, tokens, enrolled, issued>>

\* ------------------------------------------------------------------------
\* POST <prefix>/auth
\* ------------------------------------------------------------------------
AgentIds == {token_urlsafe("agent_", k) : k \in 1..MaxReg}

ApiKeys == {token_urlsafe("ak_", k) : k \in 1..MaxReg} \cup {"ak_guess"}

AuthRequests ==
    UNION { [agent_id : AgentIds, api_key : ApiKeys, timestamp : {t},
             signature : {sign(t, k) : k \in PublicKeys}]
            : t \in Timestamps }

\* Variant: the lifetime is not added.
expires_at_no_ttl(ttl_seconds) == now

\* expires_at = time.time() + token_ttl_seconds
expires_at(ttl_seconds) == now + ttl_seconds * TicksPerSec

\* Up to `await self._store.store_token(token_record)`, while fewer than
\* `issuable` tokens have been drawn.
handle_auth_upto(body, issuable) ==
    LET agent_record == get_agent(body.agent_id)
        rejected(detail) ==
            /\ Answer(HTTPException("auth", 401, detail))
            /\ UNCHANGED <<drawn, issued>>
    IN  /\ IF agent_record = None
           THEN rejected("Unknown agent")
           ELSE IF agent_record.api_key # body.api_key
           THEN rejected("Invalid API key")
           ELSE IF ~is_timestamp_valid(body.timestamp, config.max_timestamp_drift)
           THEN rejected("Timestamp outside acceptable range")
           ELSE IF ~verify_signature(body.timestamp, body.signature, agent_record.public_key)
           THEN rejected("Invalid signature")
           ELSE /\ drawn.token < issuable
                /\ drawn' = [drawn EXCEPT !.token = @ + 1]
                /\ issued' = With(issued, token_urlsafe("agt_", drawn.token + 1), body)
                /\ Suspend([op |-> "auth",
                            token_record |->
                                TokenRecord(token_urlsafe("agt_", drawn.token + 1),
                                            agent_record.agent_id,
                                            expires_at(config.token_ttl_seconds),
                                            agent_record.scopes)])
        /\ UNCHANGED <<config, discovery_doc, now, store, enrolled, origin>>

\* AgentDoor._handle_auth
handle_auth(body) == handle_auth_upto(body, MaxTokens)

\* store_token and the response.
handle_auth_complete(frame) ==
    /\ Resume(frame)
    /\ tokens' = store_token_tokens(frame.token_record)
    /\ response' = Ok("auth",
                       [token |-> frame.token_record.token,
                        expires_in |-> config.token_ttl_seconds])
    /\ UNCHANGED <<config, discovery_doc, now, pending, agents, agents_by_api_key, drawn, enrolled, origin, issued>>

\* ------------------------------------------------------------------------
\* agent_required(scopes): the guard of a protected route
\* ------------------------------------------------------------------------
\* The scopes the routes of the application were guarded with.
Guards == {<<>>, <<"read">>, <<"write", "delete", "admin">>}

Tokens == {token_urlsafe("agt_", k) : k \in 1..MaxTokens}

Authorizations ==
    {"", "Digest agt_1"} \cup {"Bearer " \o t : t \in Tokens}

Headers == {EmptyMap} \cup {[h \in {"Authorization"} |-> a] : a \in Authorizations}

GuardedRequests == [scopes : Guards, headers : Headers]

\* Variant: the scopes are left at the model's default, an empty list.
AgentContext_default_scopes(agent_id, agent_name, scopes) ==
    [agent_id |-> agent_id, agent_name |-> agent_name, scopes |-> <<>>]

\* AgentContext: what the guard hands to the route handler.
AgentContext(agent_id, agent_name, scopes) ==
    [agent_id |-> agent_id, agent_name |-> agent_name, scopes |-> scopes]

\* Variant: the difference is taken the other way round.
missing_scopes_reversed(scopes, token_scopes) == Range(token_scopes) \ Range(scopes)

\* set(scopes) - set(token_record.scopes)
missing_scopes(scopes, token_scopes) == Range(scopes) \ Range(token_scopes)

\* Up to `await store.get_agent(token_record.agent_id)`.
agent_required(req) ==
    /\ IF \/ "Authorization" \notin DOMAIN req.headers
          \/ req.headers["Authorization"] = ""
          \/ ~startswith(req.headers["Authorization"], "Bearer ")
       THEN /\ Answer(HTTPException("guard", 401,
                          "Missing or invalid Authorization header"))
            /\ UNCHANGED tokens
       ELSE LET auth_header == req.headers["Authorization"]
                token == SubSeq(auth_header, 8, Len(auth_header))
                token_record == get_token(token)
                missing == missing_scopes(req.scopes, token_record.scopes)
            IN  /\ tokens' = get_token_tokens(token)
                /\ IF token_record = None
                   THEN Answer(HTTPException("guard", 401, "Invalid or expired token"))
                   ELSE IF req.scopes # <<>> /\ missing # {}
                   THEN Answer(HTTPException("guard", 403,
                                   "Missing required scopes: " \o join(sorted(missing))))
                   ELSE Suspend([op |-> "guard", token_record |-> token_record])
    /\ UNCHANGED <<config, discovery_doc, now, pending, agents, agents_by_api_key, drawn, enrolled, origin, issued>>

\* get_agent and the AgentContext handed to the route handler.
agent_required_complete(frame) ==
    LET token_record == frame.token_record
        agent_record == get_agent(token_record.agent_id)
    IN  /\ Resume(frame)
        /\ response' =
               IF agent_record = None
               THEN HTTPException("guard", 401, "Agent not found")
               ELSE Ok("guard",
                        AgentContext(agent_record.agent_id, agent_record.agent_name,
                                     token_record.scopes))
        /\ UNCHANGED <<config, discovery_doc, now, store, drawn, enrolled, origin, issued>>

\* ------------------------------------------------------------------------
\* The clock
\* ------------------------------------------------------------------------
Tick ==
    /\ now < MaxClock
    /\ now' = now + 1
    /\ response' = NoResponse
    /\ UNCHANGED <<config, discovery_doc, store, drawn, calls, enrolled, origin, issued>>

Next ==
    \/ (\E body \in RegistrationRequests : handle_register(body)) /\ UNCHANGED <<agent, shelf, crypto, wire>>
    \/ (\E body \in VerifyRequests : handle_verify(body)) /\ UNCHANGED <<agent, shelf, crypto, wire>>
    \/ (\E frame \in Suspended("verify") : handle_verify_complete(frame)) /\ UNCHANGED <<agent, shelf, crypto, wire>>
    \/ (\E body \in AuthRequests : handle_auth(body)) /\ UNCHANGED <<agent, shelf, crypto, wire>>
    \/ (\E frame \in Suspended("auth") : handle_auth_complete(frame)) /\ UNCHANGED <<agent, shelf, crypto, wire>>
    \/ (\E req \in GuardedRequests : agent_required(req)) /\ UNCHANGED <<agent, shelf, crypto, wire>>
    \/ (\E frame \in Suspended("guard") : agent_required_complete(frame)) /\ UNCHANGED <<agent, shelf, crypto, wire>>
    \/ Tick /\ UNCHANGED <<agent, shelf, crypto, wire>>

Spec == Init /\ [][Next]_vars

\* Enrolment (register and verify) at a gate of either configuration.
NextEnrol ==
    \/ (\E body \in RegistrationRequests : handle_register(body)) /\ UNCHANGED <<agent, shelf, crypto, wire>>
    \/ (\E body \in VerifyRequests : handle_verify(body)) /\ UNCHANGED <<agent, shelf, crypto, wire>>
    \/ (\E frame \in Suspended("verify") : handle_verify_complete(frame)) /\ UNCHANGED <<agent, shelf, crypto, wire>>
    \/ Tick /\ UNCHANGED <<agent, shelf, crypto, wire>>

SpecEnrol == InitAnyConfig /\ [][NextEnrol]_vars

\* The gate mounted under a prefix of its own, the discovery document being
\* fetched between the other requests.
InitCustom ==
    /\ Constructed(CustomConfig)
    /\ AgentConstructed(None)
    /\ StoresConstructed(None) /\ CryptoLoaded /\ Unwired

NextCustom ==
    \/ Next
    \/ (\E path \in DOMAIN routes : handle_discovery(path)) /\ UNCHANGED <<agent, shelf, crypto, wire>>

SpecCustom == InitCustom /\ [][NextCustom]_vars

\* ------------------------------------------------------------------------
\* python-sdk, credentials.py: Credential and the credential store
\* ------------------------------------------------------------------------
\* The store keeps the Credential object it was given, so what the Agent
\* reads back from it within one process is the object the Agent holds;
\* saved is what FileCredentialStore._flush last wrote to the file.

\* An optional field that is set.
Some(value) == [is_none |-> FALSE, value |-> value]

\* str.rstrip(ch): the string without the ch's at its end
RECURSIVE rstrip(_, _)
rstrip(s, ch) ==
    IF Len(s) > 0 /\ SubSeq(s, Len(s), Len(s)) = ch
    THEN rstrip(SubSeq(s, 1, Len(s) - 1), ch)
    ELSE s

\* The service the Agent talks to, and the ways its URL is written.
ServiceUrl == "https://api.example.com"

ServiceUrls == {ServiceUrl, ServiceUrl \o "/", ServiceUrl \o "//"}

\* CredentialStore._normalize
normalize(url) == rstrip(url, "/")

\* The seconds is_token_valid keeps clear of token_expires_at.
TokenMargin == 30

SecretKey(public_key) == "secret key of " \o public_key

Credential(service_url, agent_id, public_key, secret_key, api_key, scopes) ==
    [service_url |-> service_url, agent_id |-> agent_id,
     public_key |-> public_key, secret_key |-> secret_key, api_key |-> Some(api_key),
     token |-> None, token_expires_at |-> None, scopes |-> scopes]

\* Variant: the token is used up to token_expires_at itself.
is_token_valid_no_margin(cred) ==
    IF cred.token = None \/ cred.token_expires_at = None THEN FALSE
    ELSE now < cred.token_expires_at.value

\* Credential.is_token_valid()
is_token_valid(cred) ==
    IF cred.token = None \/ cred.token_expires_at = None THEN FALSE
    ELSE now < cred.token_expires_at.value - TokenMargin * TicksPerSec

\* Variant: save leaves the file as it is.
save_nothing(cred) == saved

\* FileCredentialStore.save: the file after the flush
save(cred) == cred

\* CredentialStore.get, on a store with the one entry saved: the entry is
\* kept under the normalized service_url of the credential.
get(service_url) ==
    IF saved # None /\ normalize(saved.service_url) = normalize(service_url)
    THEN saved
    ELSE None

\* What the credential store can hold when the Agent is constructed:
\* nothing, a credential without a token, or one with a token of an
\* earlier session that is_token_valid accepts during the first second.
StoredCredentials ==
    LET cred == Credential(ServiceUrl, "agent_1", "pk1", SecretKey("pk1"), "ak_1", <<"read">>)
    IN  { None, cred,
          [cred EXCEPT !.token = Some("agt_0"),
                       !.token_expires_at = Some((TokenMargin + 1) * TicksPerSec)] }

\* ------------------------------------------------------------------------
\* python-sdk, credentials.py: the two stores side by side
\* ------------------------------------------------------------------------
\* A dict is the sequence of its items in insertion order.

Keys(d) == [i \in DOMAIN d |-> d[i].key]

\* d.get(key)
Lookup(d, key) ==
    IF \E i \in DOMAIN d : d[i].key = key
    THEN d[CHOOSE i \in DOMAIN d : d[i].key = key].value
    ELSE None

\* d[key] = value: in place when the key is there, at the end otherwise
Assign(d, key, value) ==
    IF \E i \in DOMAIN d : d[i].key = key
    THEN [i \in DOMAIN d |-> IF d[i].key = key THEN [key |-> key, value |-> value] ELSE d[i]]
    ELSE Append(d, [key |-> key, value |-> value])

\* d.pop(key, None)
Pop(d, key) == SelectSeq(d, LAMBDA item : item.key # key)

\* Variant: one slash at most is taken off.
InMemoryCredentialStore_normalize_once(url) ==
    IF Len(url) > 0 /\ SubSeq(url, Len(url), Len(url)) = "/"
    THEN SubSeq(url, 1, Len(url) - 1)
    ELSE url

\* InMemoryCredentialStore._normalize
InMemoryCredentialStore_normalize(url) == rstrip(url, "/")

InMemoryCredentialStore_get(service_url) ==
    Lookup(memory, InMemoryCredentialStore_normalize(service_url))

InMemoryCredentialStore_save(cred) ==
    Assign(memory, InMemoryCredentialStore_normalize(cred.service_url), cred)

InMemoryCredentialStore_delete(service_url) ==
    Pop(memory, InMemoryCredentialStore_normalize(service_url))

InMemoryCredentialStore_list_services == Keys(memory)

\* Credential.to_dict and Credential.from_dict: the dictionary has the
\* fields of the dataclass under their names, and from_dict reads them back.
to_dict(cred) == [name \in DOMAIN cred |-> cred[name]]

from_dict(data) == [name \in DOMAIN data |-> data[name]]

\* FileCredentialStore._load: the cache, filled from the file when it is
\* not yet loaded
FileCredentialStore_load ==
    IF cache # None THEN cache.value
    ELSE IF file = None THEN <<>>
    ELSE [i \in DOMAIN file.value |->
             [key |-> file.value[i].key, value |-> from_dict(file.value[i].value)]]

\* FileCredentialStore._flush: what json.dump writes
FileCredentialStore_flush(data) ==
    Some([i \in DOMAIN data |-> [key |-> data[i].key, value |-> to_dict(data[i].value)]])

FileCredentialStore_get(service_url) ==
    Lookup(FileCredentialStore_load, normalize(service_url))

FileCredentialStore_save(cred) ==
    Assign(FileCredentialStore_load, normalize(cred.service_url), cred)

FileCredentialStore_delete(service_url) ==
    Pop(FileCredentialStore_load, normalize(service_url))

FileCredentialStore_list_services == Keys(FileCredentialStore_load)

\* A second service.
OtherUrl == "https://other.example.com"

\* The URLs the stores are asked about.
AskedUrls == ServiceUrls \cup {OtherUrl, OtherUrl \o "/"}

\* The credentials saved: of either service, the URL written in either
\* way, before and after a token was obtained.
SavedCredentials ==
    LET cred(url) == Credential(url, "agent_1", "pk1", SecretKey("pk1"), "ak_1", <<"read">>)
    IN  UNION { {cred(url), [cred(url) EXCEPT !.token = Some("agt_1"),
                                              !.token_expires_at = Some(TokenMargin + 1)]}
                : url \in {ServiceUrl, ServiceUrl \o "//", OtherUrl \o "/"} }

\* What a call returned from each store.
Answered(op, arg, from_memory, from_file) ==
    [op |-> op, arg |-> arg, memory |-> from_memory, file |-> from_file]

\* get(service_url) on both stores.
stores_get(service_url) ==
    /\ answers' = Answered("get", [url |-> service_url],
                           InMemoryCredentialStore_get(service_url),
                           FileCredentialStore_get(service_url))
    /\ cache' = Some(FileCredentialStore_load)
    /\ UNCHANGED <<memory, file>>

\* save(credential) on both stores.
stores_save(cred) ==
    /\ memory' = InMemoryCredentialStore_save(cred)
    /\ cache' = Some(FileCredentialStore_save(cred))
    /\ file' = FileCredentialStore_flush(cache'.value)
    /\ answers' = Answered("save", cred, None, None)

\* delete(service_url) on both stores.
stores_delete(service_url) ==
    /\ memory' = InMemoryCredentialStore_delete(service_url)
    /\ cache' = Some(FileCredentialStore_delete(service_url))
    /\ file' = FileCredentialStore_flush(cache'.value)
    /\ answers' = Answered("delete", [url |-> service_url], None, None)

\* list_services() on both stores.
stores_list_services ==
    /\ answers' = Answered("list_services", None,
                           [keys |-> InMemoryCredentialStore_list_services],
                           [keys |-> FileCredentialStore_list_services])
    /\ cache' = Some(FileCredentialStore_load)
    /\ UNCHANGED <<memory, file>>

NextStores ==
    \/ (\E url \in AskedUrls : stores_get(url)) /\ UNCHANGED <<gate, now, agent, crypto, wire>>
    \/ (\E cred \in SavedCredentials : stores_save(cred)) /\ UNCHANGED <<gate, now, agent, crypto, wire>>
    \/ (\E url \in AskedUrls : stores_delete(url)) /\ UNCHANGED <<gate, now, agent, crypto, wire>>
    \/ stores_list_services /\ UNCHANGED <<gate, now, agent, crypto, wire>>

\* Two stores just constructed, the file store over a path with no file or
\* with the file an emptied store leaves.
InitStores ==
    /\ Constructed(ServiceConfig)
    /\ AgentConstructed(None)
    /\ \E on_disk \in {None, Some(<<>>)} : StoresConstructed(on_disk)
    /\ CryptoLoaded /\ Unwired

SpecStores == InitStores /\ [][NextStores]_vars

\* ------------------------------------------------------------------------
\* python-sdk, agent.py: Agent
\* ------------------------------------------------------------------------
\* A call on the Agent runs up to its next await in one step.  What the
\* service answers is chosen when the await is resumed.

\* The discovery document of the service.
DiscoveryDocument == [token_ttl_seconds |-> TokenMargin + 2]

\* An HTTP response; status 0 stands for a transport error raised by the
\* HTTP client instead of a response.
HttpResponse(status, body) == [status |-> status, body |-> body]

\* response.raise_for_status() raises, or the HTTP client raised
Raises(resp) == resp.status = 0 \/ resp.status >= 400

IssuedTokens == {"agt_1", "agt_2"}

\* expires_in of an auth response: at the margin, just past it, or absent.
ExpiresIns == {Some(TokenMargin), Some(TokenMargin + 1), None}

AuthResponses ==
    {HttpResponse(200, [token |-> t, expires_in |-> e]) : t \in IssuedTokens, e \in ExpiresIns}
        \cup {HttpResponse(401, None), HttpResponse(0, None)}

ResourceResponses == {HttpResponse(st, None) : st \in {0, 200, 401, 403}}

EnrolResponses ==
    {HttpResponse(200, [agent_id |-> "agent_1", api_key |-> "ak_1"]), HttpResponse(400, None),
     HttpResponse(0, None)}

DiscoveryResponses == {HttpResponse(200, DiscoveryDocument), HttpResponse(404, None)}

Returned(op, value) == [op |-> op, result |-> "returned", value |-> value]

\* An exception, by the name of its class.
Error(name) == [error |-> name]

Raised(op, error) == [op |-> op, result |-> "raised", value |-> Error(error)]

Cancelled(op) == [op |-> op, result |-> "cancelled", value |-> Error("CancelledError")]

\* A call is made on the Agent.
Called ==
    /\ started < MaxStarted
    /\ started' = started + 1

\* The call made ends before its first await.
Immediate(out) ==
    /\ Called
    /\ outcome' = out
    /\ UNCHANGED tasks

\* The call made runs to its first await.
Await(frame) ==
    /\ Called
    /\ BagCardinality(tasks) < MaxCalls
    /\ tasks' = tasks (+) SetToBag({frame})
    /\ outcome' = NoOutcome

\* A suspended call is resumed and runs to its next await.
Continue(frame, next) ==
    /\ BagIn(frame, tasks)
    /\ tasks' = (tasks (-) SetToBag({frame})) (+) SetToBag({next})
    /\ outcome' = NoOutcome
    /\ UNCHANGED started

\* A suspended call is resumed and ends.
Finish(frame, out) ==
    /\ BagIn(frame, tasks)
    /\ tasks' = tasks (-) SetToBag({frame})
    /\ outcome' = out
    /\ UNCHANGED started

Awaiting(op, pc) == {frame \in BagToSet(tasks) : frame.op = op /\ frame.pc = pc}

\* Variant: the URL is kept as it was given.
connect_base_url_as_given(url) == url

\* self._base_url = base_url.rstrip("/")
connect_base_url(url) == rstrip(url, "/")

\* Agent.connect, up to `await discover(...)`.  The lifecycle calls
\* (connect, register) are made while no other call is running.  Once the
\* Agent has a credential, the store's entry is that very object, and
\* adopting it changes nothing.
\* (the frame keeps, as `was`, the _base_url the call found)
connect(url) ==
    /\ tasks = EmptyBag
    /\ base_url' = Some(connect_base_url(url))
    /\ http_client' = TRUE
    /\ LET cached == get(base_url'.value)
       IN  credential' = IF credential = None /\ cached # None THEN cached ELSE credential
    /\ Await([op |-> "connect", pc |-> "discover", url |-> url, was |-> base_url])
    /\ UNCHANGED <<discovery, saved>>

\* discover returns the document or raises.
connect_discovered(frame, resp) ==
    /\ IF Raises(resp)
       THEN /\ Finish(frame, Raised("connect", "HTTPStatusError"))
            /\ UNCHANGED discovery
       ELSE /\ Finish(frame, Returned("connect", resp.body))
            /\ discovery' = resp.body
    /\ UNCHANGED <<http_client, base_url, credential, saved>>

\* Variant: only the HTTP client is looked at.
unconnected_client_only == ~http_client

\* self._discovery is None or self._client is None or self._base_url is None
\* (connect sets _base_url together with _client)
unconnected == discovery = None \/ ~http_client \/ base_url = None

\* Variant: no credential counts as registered.
has_api_key_never(cred) == FALSE

\* self._credential is not None and self._credential.api_key is not None
has_api_key(cred) == cred # None /\ cred.api_key # None

\* The scopes the caller passes to register.
RequestedScopes == {<<"read">>, <<"write", "admin">>}

\* Variant: every enrollment uses the keypair of the first.
register_public_key_reused(k) == "pk1"

\* public_key, secret_key = generate_keypair(): the public key of the k-th
\* keypair drawn, under the name the gate's model gives to keys.
register_public_key(k) == "pk" \o ToString(k)

\* Agent.register, up to the POST to the registration endpoint.
register(scopes) ==
    /\ tasks = EmptyBag
    /\ IF unconnected
       THEN /\ Immediate(Raised("register", "RuntimeError"))
            /\ UNCHANGED keypairs
       ELSE IF has_api_key(credential)
       THEN /\ Immediate(Returned("register", credential))
            /\ UNCHANGED keypairs
       ELSE /\ keypairs' = keypairs + 1
            /\ Await([op |-> "register", pc |-> "post_register",
                      public_key |-> register_public_key(keypairs + 1),
                      scopes |-> scopes])
    /\ UNCHANGED <<http_client, base_url, discovery, credential, saved>>

\* The registration response arrives; up to the POST to the verification
\* endpoint.
register_posted(frame, resp) ==
    /\ IF Raises(resp)
       THEN Finish(frame, Raised("register", "HTTPStatusError"))
       ELSE IF ~http_client
       THEN Finish(frame, Raised("register", "AttributeError"))
       ELSE Continue(frame, [frame EXCEPT !.pc = "post_verify"])
    /\ UNCHANGED <<http_client, base_url, discovery, credential, saved>>

\* The verification response arrives; the credential is built and saved.
register_verified(frame, resp) ==
    /\ IF Raises(resp)
       THEN /\ Finish(frame, Raised("register", "HTTPStatusError"))
            /\ UNCHANGED <<credential, saved>>
       ELSE LET cred == Credential(base_url.value, resp.body.agent_id, frame.public_key,
                                   SecretKey(frame.public_key), resp.body.api_key,
                                   frame.scopes)
            IN  /\ credential' = cred
                /\ saved' = save(cred)
                /\ Finish(frame, Returned("register", cred))
    /\ UNCHANGED <<http_client, base_url, discovery>>

\* Variant: the HTTP client is not looked at.
unregistered_client_ignored(cred) ==
    \/ cred = None
    \/ cred.api_key = None
    \/ discovery = None

\* authenticate's check that the agent is registered and connected
unregistered(cred) ==
    \/ cred = None
    \/ cred.api_key = None
    \/ ~http_client
    \/ discovery = None

\* Variant: the lifetime the response gives is not added.
token_expires_at_no_lifetime(body) == now

\* time.time() + expires_in, expires_in from the response or, when it has
\* none, from the discovery document
token_expires_at(body) ==
    now + TicksPerSec * (IF body.expires_in = None THEN discovery.token_ttl_seconds
                         ELSE body.expires_in.value)

\* The credential after authenticate has stored the token of the response.
authenticated(cred, body) ==
    [cred EXCEPT !.token = Some(body.token),
                 !.token_expires_at = Some(token_expires_at(body))]

\* How an authenticate call ended, with the auth POSTs it sent.
AuthenticateEnded(result, value, posts) ==
    [op |-> "authenticate", result |-> result, value |-> value, posts |-> posts]

\* Agent.authenticate, up to the POST to the auth endpoint.
authenticate ==
    /\ IF unregistered(credential)
       THEN Immediate(AuthenticateEnded("raised", Error("RuntimeError"), 0))
       ELSE IF is_token_valid(credential)
       THEN Immediate(AuthenticateEnded("returned", credential.token, 0))
       ELSE Await([op |-> "authenticate", pc |-> "post_auth"])
    /\ UNCHANGED <<http_client, base_url, discovery, credential, saved>>

\* Variant: a failed POST clears the token, as the 401 branch of request
\* does before it authenticates again.
authenticate_posted_clearing(frame, resp) ==
    /\ IF Raises(resp)
       THEN /\ Finish(frame, AuthenticateEnded("raised", Error("HTTPStatusError"), 1))
            /\ credential' = [credential EXCEPT !.token = None, !.token_expires_at = None]
            /\ UNCHANGED saved
       ELSE /\ credential' = authenticated(credential, resp.body)
            /\ saved' = save(credential')
            /\ Finish(frame, AuthenticateEnded("returned", Some(resp.body.token), 1))
    /\ UNCHANGED <<http_client, base_url, discovery>>

\* The auth response arrives.
authenticate_posted(frame, resp) ==
    /\ IF Raises(resp)
       THEN /\ Finish(frame, AuthenticateEnded("raised", Error("HTTPStatusError"), 1))
            /\ UNCHANGED <<credential, saved>>
       ELSE /\ credential' = authenticated(credential, resp.body)
            /\ saved' = save(credential')
            /\ Finish(frame, AuthenticateEnded("returned", Some(resp.body.token), 1))
    /\ UNCHANGED <<http_client, base_url, discovery>>

\* The locals of a request call at an await: where it is (pc), whether it
\* is before (attempt 1) or after (attempt 2) the 401 branch, the token it
\* sends and the response it has received; posts and sends count the auth
\* POSTs and the resource requests the call has sent, before is the
\* credential when the call was made.
RequestFrame(pc, attempt, posts, sends, before, token) ==
    [op |-> "request", pc |-> pc, attempt |-> attempt, posts |-> posts,
     sends |-> sends, before |-> before, token |-> token, response |-> None]

\* How a request call ended, with what it sent and the response that
\* took it into the 401 branch (None when it did not enter it).
RequestEnded(frame, result, value) ==
    [op |-> "request", result |-> result, value |-> value,
     attempt |-> frame.attempt, posts |-> frame.posts, sends |-> frame.sends,
     response |-> frame.response]

\* Agent.request, up to its first await: the POST of authenticate, or the
\* resource request when authenticate returns the cached token.  before is
\* what the call's frame remembers of the credential it started with.
request_from(before) ==
    /\ IF ~http_client
       THEN Immediate(Raised("request", "RuntimeError"))
       ELSE IF unregistered(credential)
       THEN Immediate(Raised("request", "RuntimeError"))
       ELSE IF is_token_valid(credential)
       THEN Await(RequestFrame("send", 1, 0, 1, before, credential.token))
       ELSE Await(RequestFrame("post_auth", 1, 1, 0, before, None))
    /\ UNCHANGED <<http_client, base_url, discovery, credential, saved>>

\* Agent.request
request == request_from(None)

\* Agent.request, the credential at the call remembered.
request_recorded == request_from(credential)

\* The auth response arrives in a request call; on success the token is
\* stored and saved and the resource request is sent.  self._client is
\* read again to send it: after a close it is None (AttributeError).
request_authenticated(frame, resp) ==
    /\ IF Raises(resp)
       THEN /\ Finish(frame, RequestEnded(frame, "raised", Error("HTTPStatusError")))
            /\ UNCHANGED <<credential, saved>>
       ELSE /\ credential' = authenticated(credential, resp.body)
            /\ saved' = save(credential')
            /\ IF ~http_client
               THEN Finish(frame, RequestEnded(frame, "raised", Error("AttributeError")))
               ELSE Continue(frame, [frame EXCEPT !.pc = "send", !.sends = @ + 1,
                                                 !.token = Some(resp.body.token)])
    /\ UNCHANGED <<http_client, base_url, discovery>>

\* Variant: the 401 branch is taken after every 401.
retries_every_401(frame, resp) == resp.status = 401

\* Variant: the branch is taken after every error status.
retries_every_error(frame, resp) == frame.attempt = 1 /\ resp.status >= 400

\* `if response.status_code == 401:` on the first response; the second
\* response is returned without being looked at.
retries(frame, resp) == frame.attempt = 1 /\ resp.status = 401

\* The response to the resource request arrives: it is returned, or, in
\* the 401 branch, token and token_expires_at are cleared and authenticate
\* is called again, up to its POST.
request_responded(frame, resp) ==
    /\ IF resp.status = 0
       THEN /\ Finish(frame, RequestEnded(frame, "raised", Error("TransportError")))
            /\ UNCHANGED credential
       ELSE IF retries(frame, resp)
       THEN LET cleared == [credential EXCEPT !.token = None, !.token_expires_at = None]
            IN  /\ credential' = cleared
                /\ IF unregistered(cleared)
                   THEN Finish(frame, RequestEnded([frame EXCEPT !.response = resp],
                                                   "raised", Error("RuntimeError")))
                   ELSE Continue(frame, [frame EXCEPT !.pc = "post_auth", !.attempt = 2,
                                                     !.posts = @ + 1, !.response = resp])
       ELSE /\ Finish(frame, RequestEnded(frame, "returned", resp))
            /\ UNCHANGED credential
    /\ UNCHANGED <<http_client, base_url, discovery, saved>>

\* The caller cancels a suspended call: CancelledError is raised at its
\* await and nothing in the call handles it.
cancel(frame) ==
    /\ IF frame.op = "request"
       THEN Finish(frame, RequestEnded(frame, "cancelled", Error("CancelledError")))
       ELSE IF frame.op = "authenticate"
       THEN Finish(frame, AuthenticateEnded("cancelled", Error("CancelledError"), 1))
       ELSE Finish(frame, Cancelled(frame.op))
    /\ UNCHANGED <<http_client, base_url, discovery, credential, saved>>

\* Agent.close, up to `await self._client.aclose()`; without a client it
\* returns at once.
close ==
    /\ IF ~http_client
       THEN Immediate(Returned("close", None))
       ELSE Await([op |-> "close", pc |-> "aclose"])
    /\ UNCHANGED <<http_client, base_url, discovery, credential, saved>>

\* aclose returns and `self._client = None` runs.
close_closed(frame) ==
    /\ http_client' = FALSE
    /\ Finish(frame, Returned("close", None))
    /\ UNCHANGED <<base_url, discovery, credential, saved>>

\* The clock, with no call ending.
AgentTick ==
    /\ Tick
    /\ outcome' = NoOutcome
    /\ UNCHANGED <<http_client, base_url, discovery, credential, saved, tasks, started>>
    /\ UNCHANGED <<shelf, crypto, wire>>

\* The awaited HTTP operations complete, with a response or an error.
Resumption ==
    \/ \E frame \in Awaiting("connect", "discover"), resp \in DiscoveryResponses :
           connect_discovered(frame, resp)
    \/ \E frame \in Awaiting("register", "post_register"), resp \in EnrolResponses :
           register_posted(frame, resp)
    \/ \E frame \in Awaiting("register", "post_verify"), resp \in EnrolResponses :
           register_verified(frame, resp)
    \/ \E frame \in Awaiting("authenticate", "post_auth"), resp \in AuthResponses :
           authenticate_posted(frame, resp)
    \/ \E frame \in Awaiting("request", "post_auth"), resp \in AuthResponses :
           request_authenticated(frame, resp)
    \/ \E frame \in Awaiting("request", "send"), resp \in ResourceResponses :
           request_responded(frame, resp)
    \/ \E frame \in Awaiting("close", "aclose") : close_closed(frame)

\* Every step of the Agent but the call of request.
AgentSteps ==
    \/ (\E url \in ServiceUrls : connect(url)) /\ UNCHANGED <<gate, now, shelf, crypto, wire>>
    \/ (\E scopes \in RequestedScopes : register(scopes)) /\ UNCHANGED <<gate, now, shelf, verdict, wire>>
    \/ authenticate /\ UNCHANGED <<gate, now, shelf, crypto, wire>>
    \/ close /\ UNCHANGED <<gate, now, shelf, crypto, wire>>
    \/ Resumption /\ UNCHANGED <<gate, now, shelf, crypto, wire>>
    \/ (\E frame \in BagToSet(tasks) : cancel(frame)) /\ UNCHANGED <<gate, now, shelf, crypto, wire>>
    \/ AgentTick

NextAgent ==
    \/ request /\ UNCHANGED <<gate, now, shelf, crypto, wire>>
    \/ AgentSteps

NextAgentRecorded ==
    \/ request_recorded /\ UNCHANGED <<gate, now, shelf, crypto, wire>>
    \/ AgentSteps

\* An Agent just constructed, over a credential store that may hold a
\* credential; the gate is left out (the service answers as it likes).
InitAgent ==
    /\ Constructed(ServiceConfig)
    /\ \E stored \in StoredCredentials : AgentConstructed(stored)
    /\ StoresConstructed(None) /\ CryptoLoaded /\ Unwired

SpecAgent == InitAgent /\ [][NextAgent]_vars

\* Every awaited HTTP operation completes (the HTTP client has a timeout).
SpecAgentFair == SpecAgent /\ WF_vars(Resumption /\ UNCHANGED <<gate, now, shelf, crypto, wire>>)

\* The Agent with every request call remembering the credential it
\* started with.
SpecAgentRecorded == InitAgent /\ [][NextAgentRecorded]_vars

\* ------------------------------------------------------------------------
\* Properties
\* ------------------------------------------------------------------------
\* A step in which a handler suspends at its second store await.
Suspending == BagCardinality(calls') > BagCardinality(calls)

\* A step in which a guarded request is suspended.
SuspendingGuard ==
    \E frame \in Suspended("guard")' : CopiesIn(frame, calls') > CopiesIn(frame, calls)

\* A step in which a suspended handler is resumed.
Resuming == BagCardinality(calls') < BagCardinality(calls)

\* A verify request for this registration_id has succeeded.
Consumed(registration_id) ==
    \E a \in DOMAIN origin : origin[a].registration_id = registration_id

\* The AgentRecords created from a registration_id.
CreatedFrom(registration_id) ==
    {a \in DOMAIN agents : origin[a].registration_id = registration_id}

\* The request carries the challenge minted for its registration and a
\* signature that is valid over it under the registered public key.
CarriesProof(body) ==
    /\ body.registration_id \in DOMAIN enrolled
    /\ body.challenge = enrolled[body.registration_id].challenge
    /\ body.signature = sign(body.challenge,
                             enrolled[body.registration_id].request.public_key)

\* C1: when two verify requests for the same registration_id, both carrying
\* the stored challenge and a valid signature, are interleaved at the awaits
\* of get_pending_registration and complete_registration, at most one
\* AgentRecord is created and the other request is answered 404: a verify
\* handler resumed at complete_registration is answered 200 or 404, and no
\* registration_id has two AgentRecords.
C1_ConcurrentVerifyLoserSees404 ==
    [][ /\ \A frame \in Suspended("verify") :
              (CarriesProof(frame.body) /\ handle_verify_complete(frame))
                  => response'.status \in {200, 404}
        /\ \A r \in RegistrationIds : Cardinality(CreatedFrom(r)') <= 1 ]_vars

\* C2: once a verify request for registration_id R has succeeded, every
\* later verify request naming R is answered 404 whatever challenge and
\* signature it carries, and creates no AgentRecord (a 404 changes nothing
\* in the store and suspends no handler); no registration_id ever has two
\* AgentRecords.  Stated per step: a step that is not a verify 404 is not
\* the step of a verify request naming a verified registration.
C2_VerifiedRegistrationIsGone ==
    [][ /\ (response'.op = "verify" /\ response'.status = 404)
              => UNCHANGED <<store, calls>>
        /\ ((response'.op = "verify" /\ response'.status # 404) \/ Suspending)
              => \A body \in VerifyRequests :
                     Consumed(body.registration_id) => ~handle_verify(body)
        /\ \A r \in RegistrationIds : Cardinality(CreatedFrom(r)') <= 1 ]_vars

\* A verify is answered 404 when every registration has been verified.
C2_Witness ==
    /\ response.op = "verify"
    /\ response.status = 404
    /\ \A r \in RegistrationIds : Consumed(r)

\* C3: a verify answered 400 or 401 leaves the pending registrations, the
\* agent records and the tokens unchanged; and while a registration is
\* pending, a verify request carrying its challenge and a valid signature
\* is not rejected by the checks, and is answered 200 when it is resumed
\* with the registration still pending.
C3_FailedVerifyKeepsPending ==
    [][ /\ (response'.op = "verify" /\ response'.status \in {400, 401})
              => UNCHANGED store
        /\ (response'.op = "verify" /\ response'.status # 200)
              => /\ \A body \in VerifyRequests :
                        (body.registration_id \in DOMAIN pending /\ CarriesProof(body))
                            => ~handle_verify(body)
                 /\ \A frame \in Suspended("verify") :
                        frame.body.registration_id \in DOMAIN pending
                            => ~handle_verify_complete(frame) ]_vars

\* A verify has just been rejected with 400 or 401 and the registration it
\* named is still pending.
C3_Witness ==
    /\ response.op = "verify"
    /\ response.status \in {400, 401}
    /\ pending # EmptyMap

\* The agent a verify response names is found under its agent_id and under
\* its api_key, as one record holding that api_key.
VerifyResponseResolves ==
    (response.op = "verify" /\ response.status = 200)
        => /\ get_agent(response.body.agent_id) # None
           /\ get_agent(response.body.agent_id) = get_agent_by_api_key(response.body.api_key)
           /\ get_agent(response.body.agent_id).api_key = response.body.api_key

C5_AgentRecordsAreProven ==
    \A a \in DOMAIN agents :
        LET v == origin[a]
            e == enrolled[v.registration_id]
        IN  /\ v.challenge = e.challenge
            /\ v.signature = sign(e.challenge, e.request.public_key)
            /\ agents[a].agent_name = e.request.agent_name
            /\ agents[a].public_key = e.request.public_key
            /\ agents[a].scopes = e.request.scopes

C5_Witness ==
    /\ agents # EmptyMap
    /\ response.op = "verify"
    /\ response.status = 200

\* The four checks of an auth request: agent_id names an AgentRecord, api_key
\* is that record's, the timestamp is an integer within max_timestamp_drift
\* seconds of the clock, and the signature is over the timestamp string
\* under the record's public key.
PassesAuthChecks(body) ==
    /\ body.agent_id \in DOMAIN agents
    /\ body.api_key = agents[body.agent_id].api_key
    /\ body.timestamp \in DOMAIN IntLiterals
    /\ WholeSeconds(now) - IntLiterals[body.timestamp] <= config.max_timestamp_drift
    /\ IntLiterals[body.timestamp] - WholeSeconds(now) <= config.max_timestamp_drift
    /\ body.signature = sign(body.timestamp, agents[body.agent_id].public_key)

\* C6: an auth request is answered 200 only if it passes the four checks
\* (a token is minted, and the handler goes on to store it and answer 200,
\* for no request that fails one, a stale timestamp with a valid signature
\* included); every other answer of auth is 401 and adds no TokenRecord.
C6_AuthOnlyAfterFourChecks ==
    [][ /\ (response'.op = "auth" /\ response'.status # 200)
              => /\ response'.status = 401
                 /\ UNCHANGED <<tokens, calls, drawn>>
        /\ (response'.op = "auth" /\ response'.status = 200)
              => \E frame \in Suspended("auth") : handle_auth_complete(frame)
        /\ drawn'.token # drawn.token
              => \A body \in AuthRequests :
                     ~PassesAuthChecks(body) => ~handle_auth(body) ]_vars

\* An auth request of an enrolled agent has just been refused for its
\* timestamp.
C6_Witness ==
    /\ response.op = "auth"
    /\ response.status = 401
    /\ response.detail = "Timestamp outside acceptable range"
    /\ agents # EmptyMap

HasBearer(req) ==
    /\ "Authorization" \in DOMAIN req.headers
    /\ Len(req.headers["Authorization"]) >= 7
    /\ SubSeq(req.headers["Authorization"], 1, 7) = "Bearer "

\* The bearer value of such a request.
Bearer(req) == SubSeq(req.headers["Authorization"], 8, Len(req.headers["Authorization"]))

\* The request presents a token that has a TokenRecord in the store.
PresentsStoredToken(req) == HasBearer(req) /\ Bearer(req) \in DOMAIN tokens

\* C8: a guarded request presenting a token whose expires_at is strictly
\* before the clock is answered 401 and its TokenRecord is removed by that
\* lookup, so that get_token then returns none; a lookup at a clock value
\* not past expires_at leaves the store as it is and returns the record
\* (the guard goes on to the scope check with it).
C8_ExpiredTokenIsEvicted ==
    [][ ((response'.op = "guard" /\ ~Resuming) \/ SuspendingGuard)
            => \A req \in GuardedRequests :
                   (PresentsStoredToken(req) /\ agent_required(req))
                       => LET record == tokens[Bearer(req)]
                          IN  IF now > record.expires_at
                              THEN /\ response'.status = 401
                                   /\ Bearer(req) \notin DOMAIN tokens'
                                   /\ get_token(Bearer(req))' = None
                              ELSE /\ tokens' = tokens
                                   /\ \/ response'.status = 403
                                      \/ BagIn([op |-> "guard", token_record |-> record],
                                               calls') ]_vars

\* A token was issued and stored, and a lookup has since removed it; a
\* guarded request has just been refused.
C8_Witness ==
    /\ response.op = "guard"
    /\ response.status = 401
    /\ response.detail = "Invalid or expired token"
    /\ drawn.token > 0
    /\ Suspended("auth") = {}
    /\ tokens = EmptyMap

\* C9: a guarded request presenting an unexpired token issued with scopes S
\* to a guard requiring S' passes the scope check and is admitted (200) when
\* S' is a subset of S, and is answered 403 when S' has a name not in S, the
\* detail listing exactly the missing names in sorted order.
C9_ScopesGateAdmission ==
    [][ /\ ((response'.op = "guard" /\ ~Resuming) \/ SuspendingGuard)
              => \A req \in GuardedRequests :
                     ( /\ PresentsStoredToken(req)
                       /\ now <= tokens[Bearer(req)].expires_at
                       /\ agent_required(req) )
                         => LET record == tokens[Bearer(req)]
                                lacking == Range(req.scopes) \ Range(record.scopes)
                            IN  IF lacking = {}
                                THEN /\ response' = NoResponse
                                     /\ BagIn([op |-> "guard", token_record |-> record],
                                              calls')
                                ELSE /\ response'.status = 403
                                     /\ response'.detail = "Missing required scopes: "
                                            \o join(SelectSeq(ScopeOrder,
                                                              LAMBDA n : n \in lacking))
        /\ (response'.op = "guard" /\ Resuming) => response'.status = 200 ]_vars

\* A guarded request has just been refused for the two scopes its token
\* lacks, listed in sorted order (the guard lists them as delete, admin).
C9_Witness ==
    /\ response.op = "guard"
    /\ response.status = 403
    /\ response.detail = "Missing required scopes: admin, delete"

\* C10: a guarded request with no Authorization header, with a header that
\* does not start with "Bearer ", or with a bearer value that is no token
\* of the store is answered 401 without an AgentContext being handed to the
\* route handler, and leaves the store and the suspended handlers as they
\* are.
C10_NoTokenNoAdmission ==
    [][ ((response'.op = "guard" /\ ~Resuming) \/ SuspendingGuard)
            => \A req \in GuardedRequests :
                   (~PresentsStoredToken(req) /\ agent_required(req))
                       => /\ response'.status = 401
                          /\ response'.body = None
                          /\ UNCHANGED <<store, calls>> ]_vars

\* A guarded request has just been refused for its header while the store
\* holds a token.
C10_Witness ==
    /\ response.op = "guard"
    /\ response.status = 401
    /\ response.detail = "Missing or invalid Authorization header"
    /\ tokens # EmptyMap

\* C11: when the guard admits a request, the AgentContext handed to the
\* handler carries the agent_id of the TokenRecord stored under the
\* presented token, the agent_name of that agent's AgentRecord, and the
\* scopes of that TokenRecord, which are those it was stored with: a stored
\* TokenRecord is never altered, and the guard carries the record it looked
\* up to the point where it builds the context.
C11_ContextIsTheTokensAgent ==
    [][ /\ (response'.op = "guard" /\ response'.status = 200)
              => \E frame \in Suspended("guard") :
                     /\ agent_required_complete(frame)
                     /\ frame.token_record.agent_id \in DOMAIN agents
                     /\ response'.body.agent_id = frame.token_record.agent_id
                     /\ response'.body.agent_name
                            = agents[frame.token_record.agent_id].agent_name
                     /\ response'.body.scopes = frame.token_record.scopes
        /\ SuspendingGuard
              => \A req \in GuardedRequests :
                     agent_required(req)
                         => /\ PresentsStoredToken(req)
                            /\ BagIn([op |-> "guard",
                                      token_record |-> tokens[Bearer(req)]], calls')
        /\ \A t \in DOMAIN tokens \cap DOMAIN tokens' : tokens'[t] = tokens[t] ]_vars

\* The guard has just admitted a request of agent a1 with the scopes its
\* token was issued with.
C11_Witness ==
    /\ response.op = "guard"
    /\ response.status = 200
    /\ response.body.agent_name = "a1"
    /\ response.body.scopes = <<"write", "read">>

\* The request names a scope that the configured whitelist does not have.
NamesUnlistedScope(body) ==
    \E i \in DOMAIN body.scopes :
        \A j \in DOMAIN config.scopes : body.scopes[i] # config.scopes[j]

\* C12: a register request is answered 400, with the store unchanged,
\* exactly when the whitelist is non-empty and the request names a scope
\* outside it; every other request, one with arbitrary scope names to a
\* gate with an empty whitelist included, is answered 200 and exactly one
\* new PendingRegistration with the request's agent_name, public_key and
\* scopes is stored, under the registration_id the response returns.
C12_RegisterChecksWhitelist ==
    [][ response'.op = "register"
            => \A body \in RegistrationRequests :
                   handle_register(body)
                       => IF config.scopes # <<>> /\ NamesUnlistedScope(body)
                          THEN /\ response'.status = 400
                               /\ UNCHANGED store
                          ELSE /\ response'.status = 200
                               /\ LET id == response'.body.registration_id
                                  IN  /\ id \notin DOMAIN pending
                                      /\ DOMAIN pending' = DOMAIN pending \cup {id}
                                      /\ \A r \in DOMAIN pending : pending'[r] = pending[r]
                                      /\ pending'[id].registration_id = id
                                      /\ pending'[id].challenge = response'.body.challenge
                                      /\ pending'[id].agent_name = body.agent_name
                                      /\ pending'[id].public_key = body.public_key
                                      /\ pending'[id].scopes = body.scopes
                               /\ UNCHANGED <<agents, agents_by_api_key, tokens>> ]_vars

\* A gate with an empty whitelist has just accepted a registration that
\* asks for a scope no configuration of the model offers.
C12_Witness ==
    /\ config.scopes = <<>>
    /\ response.op = "register"
    /\ response.status = 200
    /\ \E r \in DOMAIN pending : pending[r].scopes = <<"write", "admin">>

\* The scopes of every record of the mapping are names of the whitelist.
WithinWhitelist(records) ==
    \A k \in DOMAIN records :
        \A i \in DOMAIN records[k].scopes :
            \E j \in DOMAIN config.scopes : records[k].scopes[i] = config.scopes[j]

\* C13: at a gate with a non-empty whitelist, the scopes of every
\* PendingRegistration, every AgentRecord (under either index) and every
\* TokenRecord are a subset of the whitelist, in every reachable state.
C13_ScopesWithinWhitelist ==
    config.scopes # <<>>
        => /\ WithinWhitelist(pending)
           /\ WithinWhitelist(agents)
           /\ WithinWhitelist(agents_by_api_key)
           /\ WithinWhitelist(tokens)

\* A gate with a whitelist holds an agent and a token issued to it, after
\* having refused a registration asking for a scope outside the whitelist.
C13_Witness ==
    /\ config.scopes # <<>>
    /\ agents # EmptyMap
    /\ tokens # EmptyMap
    /\ response.op = "register"
    /\ response.status = 400

\* A step in which a verify request is suspended.
SuspendingVerify ==
    \E frame \in Suspended("verify")' : CopiesIn(frame, calls') > CopiesIn(frame, calls)

\* C14: verify applies its checks in a fixed order: an unknown
\* registration_id gives 404; otherwise a challenge different from the
\* stored one gives 400, whatever the signature (one valid over the
\* submitted challenge included); otherwise a signature that is not valid
\* over the challenge under the registered key gives 401; only a request
\* passing all three goes on to complete_registration, and AgentRecords are
\* created by such requests only.
C14_VerifyChecksInOrder ==
    [][ /\ ((response'.op = "verify" /\ ~Resuming) \/ SuspendingVerify)
              => \A body \in VerifyRequests :
                     handle_verify(body)
                         => LET id == body.registration_id
                            IN  IF id \notin DOMAIN pending
                                THEN response'.status = 404
                                ELSE IF body.challenge # pending[id].challenge
                                THEN response'.status = 400
                                ELSE IF body.signature
                                            # sign(body.challenge, pending[id].public_key)
                                THEN response'.status = 401
                                ELSE /\ response' = NoResponse
                                     /\ CopiesIn([op |-> "verify", body |-> body], calls')
                                            > CopiesIn([op |-> "verify", body |-> body], calls)
        /\ agents' # agents
              => \E frame \in Suspended("verify") : handle_verify_complete(frame) ]_vars

\* A verify request for a pending registration has just been refused for
\* its challenge.
C14_Witness ==
    /\ response.op = "verify"
    /\ response.detail = "Challenge mismatch"
    /\ \E r \in DOMAIN pending : pending[r].challenge # "not-the-challenge"

\* What a handler can observe of the store between two operations: a
\* registration that was created is either pending or promoted to an
\* AgentRecord, never both or neither, and an agent is visible through
\* get_agent exactly when it is visible through get_agent_by_api_key, as
\* the same record.
StoreIsWhole ==
    /\ \A r \in DOMAIN enrolled :
           (r \in DOMAIN pending) # (\E a \in DOMAIN agents : origin[a].registration_id = r)
    /\ \A a \in DOMAIN agents :
           /\ agents[a].agent_id = a
           /\ get_agent_by_api_key(agents[a].api_key) = agents[a]
    /\ \A k \in DOMAIN agents_by_api_key :
           /\ agents_by_api_key[k].api_key = k
           /\ get_agent(agents_by_api_key[k].agent_id) = agents_by_api_key[k]

RequestLeft == {f \in BagToSet(tasks) : f.op = "request" /\ CopiesIn(f, tasks') < CopiesIn(f, tasks)}

RequestEntered == {g \in BagToSet(tasks') : g.op = "request" /\ CopiesIn(g, tasks') > CopiesIn(g, tasks)}

\* How far a request call has got: each await it reaches is later.
RequestRank(f) == 2 * f.attempt + (IF f.pc = "send" THEN 1 ELSE 0)

RequestRunning == Awaiting("request", "post_auth") \cup Awaiting("request", "send") # {}

\* C16: within one call of Agent.request, a first response that is not
\* returned and raised nothing is a 401 after which token and expiry are
\* cleared, one more auth POST is sent and, when it succeeds, the request is
\* sent once more; the second response ends the call and is returned
\* whatever its status.  A call sends at most two resource requests and at
\* most two auth POSTs, every resumption takes it to a later await or ends
\* it, and when every awaited HTTP operation completes no call runs forever.
C16_RequestStep ==
    /\ \A g \in RequestEntered : g.sends <= 2 /\ g.posts <= 2 /\ g.sends <= g.attempt
    /\ \A f \in RequestLeft :
          /\ \A g \in RequestEntered : RequestRank(g) > RequestRank(f)
          /\ outcome'.result # "cancelled" =>
                IF f.pc = "send" /\ f.attempt = 1
                THEN \/ /\ outcome'.result = "returned"
                        /\ outcome' = RequestEnded(f, "returned", outcome'.value)
                        /\ outcome'.value \in ResourceResponses
                        /\ outcome'.value.status # 401
                        /\ RequestEntered = {}
                     \/ /\ outcome' = RequestEnded(f, "raised", Error("TransportError"))
                        /\ RequestEntered = {}
                     \/ /\ outcome' = RequestEnded([f EXCEPT !.response = HttpResponse(401, None)],
                                                  "raised", Error("RuntimeError"))
                        /\ ~http_client
                        /\ credential'.token = None
                        /\ credential'.token_expires_at = None
                        /\ RequestEntered = {}
                     \/ /\ outcome' = NoOutcome
                        /\ credential'.token = None
                        /\ credential'.token_expires_at = None
                        /\ RequestEntered = {[f EXCEPT !.pc = "post_auth", !.attempt = 2,
                                                       !.posts = f.posts + 1,
                                                       !.response = HttpResponse(401, None)]}
                ELSE IF f.pc = "post_auth"
                THEN \/ /\ outcome' = RequestEnded(f, "raised", Error("HTTPStatusError"))
                        /\ RequestEntered = {}
                     \/ /\ outcome' = RequestEnded(f, "raised", Error("AttributeError"))
                        /\ ~http_client
                        /\ RequestEntered = {}
                     \/ /\ outcome' = NoOutcome
                        /\ credential'.token # None
                        /\ RequestEntered = {[f EXCEPT !.pc = "send", !.sends = f.sends + 1,
                                                       !.token = credential'.token]}
                ELSE /\ RequestEntered = {}
                     /\ \/ /\ outcome'.result = "returned"
                           /\ outcome' = RequestEnded(f, "returned", outcome'.value)
                           /\ outcome'.value \in ResourceResponses
                        \/ outcome' = RequestEnded(f, "raised", Error("TransportError"))
                     /\ outcome'.sends = 2
                     /\ outcome'.posts \in {1, 2}

C16_RequestRetriesOnce == [][C16_RequestStep]_vars /\ []<>(~RequestRunning)

C16_Witness ==
    /\ outcome.op = "request"
    /\ outcome.result = "returned"
    /\ outcome.attempt = 2
    /\ outcome.sends = 2
    /\ outcome.posts = 2
    /\ outcome.value.status = 401

\* C17: a first response with a status other than 401 never takes the call
\* into the refresh branch: the call ends on it, returning that response
\* after one resource request, with no auth POST sent after the response
\* and credential and credential store as they were when it arrived.
C17_RequestStep ==
    \A f \in RequestLeft :
        (f.pc = "send" /\ f.attempt = 1 /\ outcome'.result # "cancelled") =>
            /\ \A g \in RequestEntered : g.response.status = 401
            /\ RequestEntered = {} => outcome'.op = "request"
            /\ (RequestEntered = {} /\ outcome'.response # None) =>
                  outcome'.response.status = 401
            /\ (RequestEntered = {} /\ outcome'.response = None) =>
                  /\ outcome'.result \in {"returned", "raised"}
                  /\ outcome'.result = "returned" =>
                        /\ outcome'.value \in ResourceResponses
                        /\ outcome'.value.status \notin {0, 401}
                        /\ outcome'.sends = 1
                        /\ outcome'.attempt = 1
                        /\ outcome'.posts = f.posts
                  /\ outcome'.result = "raised" => outcome'.value = Error("TransportError")
                  /\ UNCHANGED <<credential, saved>>

C17_OtherStatusesPropagate == [][C17_RequestStep]_vars

C17_Witness ==
    /\ outcome.op = "request"
    /\ outcome.result = "returned"
    /\ outcome.attempt = 1
    /\ outcome.sends = 1
    /\ outcome.value.status = 403
    /\ credential.token # None
    /\ saved = credential

\* C18: when a request call is cancelled at the auth POST of its 401
\* branch, or that POST fails, the Agent's credential and the credential
\* store's hold the same token and token_expires_at, those the credential
\* had when the call was made.
C18_RefreshStep ==
    \A f \in RequestLeft :
        (f.attempt = 2 /\ f.pc = "post_auth" /\ outcome'.result \in {"cancelled", "raised"}) =>
            /\ credential'.token = saved'.token
            /\ credential'.token_expires_at = saved'.token_expires_at
            /\ credential'.token = f.before.token
            /\ credential'.token_expires_at = f.before.token_expires_at

C18_RefreshLeavesNoPartialWrite == [][C18_RefreshStep]_vars

\* The calls suspended at an auth POST, each with its number of copies.
AuthPostsInFlight ==
    [f \in {g \in BagToSet(tasks) : g.pc = "post_auth"} |-> CopiesIn(f, tasks)]

\* C19: of the authenticate and request calls running on one Agent, at most
\* one is at an auth POST at any time.
C19_AuthenticateIsSingleFlight == BagCardinality(AuthPostsInFlight) <= 1

\* A step in which authenticate is called.
AuthenticateCalled ==
    /\ started' = started + 1
    /\ \/ outcome'.op = "authenticate"
       \/ \E g \in BagToSet(tasks') :
             g.op = "authenticate" /\ CopiesIn(g, tasks') > CopiesIn(g, tasks)

\* The lifetimes an auth response can give a token, in seconds.
Lifetimes ==
    {IF e = None THEN DiscoveryDocument.token_ttl_seconds ELSE e.value : e \in ExpiresIns}

\* C20: authenticate called on a connected Agent whose credential holds a
\* token more than 30 seconds before its token_expires_at returns that
\* token at once, sending nothing and leaving credential and credential
\* store as they are; and an authenticate that obtained a token leaves it
\* with token_expires_at at the time of the response plus the lifetime E
\* the service gave, so that calls less than E - 30 seconds later are
\* answered with it in that way.
C20_AuthenticateStep ==
    /\ ( /\ AuthenticateCalled
         /\ http_client /\ discovery # None
         /\ credential # None
         /\ credential.api_key # None
         /\ credential.token # None
         /\ credential.token_expires_at # None
         /\ now < credential.token_expires_at.value - 30 * TicksPerSec )
       => /\ outcome' = AuthenticateEnded("returned", credential.token, 0)
          /\ UNCHANGED <<tasks, credential, saved>>
    /\ ( /\ outcome'.op = "authenticate"
         /\ outcome'.result = "returned"
         /\ outcome'.posts = 1 )
       => /\ credential'.token = outcome'.value
          /\ \E e \in Lifetimes :
                credential'.token_expires_at = Some(now + e * TicksPerSec)
          /\ saved' = credential'

C20_ValidTokenIsReused == [][C20_AuthenticateStep]_vars

\* A second authenticate answered with the token the first one obtained.
C20_Witness ==
    /\ outcome.op = "authenticate"
    /\ outcome.result = "returned"
    /\ outcome.posts = 0
    /\ outcome.value \in {Some(t) : t \in IssuedTokens}
    /\ credential # None
    /\ credential.token = outcome.value
    /\ tasks = EmptyBag

\* The credential after a successful auth response resp has been stored.
StoredFrom(resp) ==
    [credential EXCEPT
        !.token = Some(resp.body.token),
        !.token_expires_at =
            Some(now + TicksPerSec * (IF resp.body.expires_in = None
                                      THEN discovery.token_ttl_seconds
                                      ELSE resp.body.expires_in.value))]

\* The calls a step takes off an auth POST.
AuthPostLeft ==
    {f \in BagToSet(tasks) : f.pc = "post_auth" /\ CopiesIn(f, tasks') < CopiesIn(f, tasks)}

\* C21: when the auth POST of an authenticate call (made directly or from
\* request) succeeds, the call goes on with the token of the response, the
\* credential holds that token with token_expires_at at the client clock
\* plus the response's expires_in, or plus the discovery document's
\* token_ttl_seconds when the response has none, and the credential store
\* holds the credential with that token and expiry.
C21_AuthenticateStep ==
    \A f \in AuthPostLeft :
        outcome'.result \notin {"cancelled", "raised"} =>
            \E resp \in AuthResponses :
                /\ ~Raises(resp)
                /\ credential' = StoredFrom(resp)
                /\ saved' = credential'
                /\ IF f.op = "authenticate"
                   THEN outcome' = AuthenticateEnded("returned", Some(resp.body.token), 1)
                   ELSE RequestEntered = {[f EXCEPT !.pc = "send", !.sends = f.sends + 1,
                                                    !.token = Some(resp.body.token)]}

C21_AuthenticateStoresToken == [][C21_AuthenticateStep]_vars

\* An authenticate that returned a token whose response had no expires_in.
C21_Witness ==
    /\ outcome.op = "authenticate"
    /\ outcome.result = "returned"
    /\ outcome.posts = 1
    /\ credential.token = outcome.value
    /\ credential.token_expires_at = Some(now + TicksPerSec * discovery.token_ttl_seconds)
    /\ saved = credential

\* A step in which register is called.
RegisterCalled ==
    /\ started' = started + 1
    /\ \/ outcome'.op = "register"
       \/ \E g \in BagToSet(tasks') :
             g.op = "register" /\ CopiesIn(g, tasks') > CopiesIn(g, tasks)

\* C22: register called on a connected Agent whose credential has an
\* api_key returns that credential at once, whatever the scopes: no request
\* is sent and credential and credential store stay as they are; so a
\* register that obtains a credential from the gate started from an Agent
\* that had none with an api_key.
C22_RegisterStep ==
    /\ (RegisterCalled /\ http_client /\ discovery # None
            /\ credential # None /\ credential.api_key # None)
       => /\ outcome' = Returned("register", credential)
          /\ UNCHANGED <<tasks, credential, saved>>
    /\ \A f \in BagToSet(tasks) :
          (f.op = "register" /\ CopiesIn(f, tasks') < CopiesIn(f, tasks))
          => (credential = None \/ credential.api_key = None)

RequestCalled ==
    /\ started' = started + 1
    /\ \/ outcome'.op = "request"
       \/ RequestEntered # {}

\* The Agent and its credential store are as they were, and nothing has
\* been sent.
NothingDone == UNCHANGED <<tasks, http_client, base_url, discovery, credential, saved>>

\* C23: register called before a connect has succeeded, authenticate
\* called without a credential that has an api_key, and request called
\* before connect each raise RuntimeError at once: nothing is sent, and the
\* Agent and the credential store are left as they were.
C23_LifecycleStep ==
    /\ (RegisterCalled /\ (discovery = None \/ ~http_client))
       => (outcome' = Raised("register", "RuntimeError") /\ NothingDone)
    /\ (AuthenticateCalled /\ (credential = None \/ credential.api_key = None))
       => (outcome' = AuthenticateEnded("raised", Error("RuntimeError"), 0) /\ NothingDone)
    /\ (RequestCalled /\ ~http_client)
       => (outcome' = Raised("request", "RuntimeError") /\ NothingDone)

C23_LifecycleIsEnforced == [][C23_LifecycleStep]_vars

\* register refused after a connect whose discovery failed.
C23_Witness ==
    /\ outcome = Raised("register", "RuntimeError")
    /\ http_client
    /\ discovery = None

\* A step in which close is called.
CloseCalled ==
    /\ started' = started + 1
    /\ \/ outcome'.op = "close"
       \/ \E g \in BagToSet(tasks') :
             g.op = "close" /\ CopiesIn(g, tasks') > CopiesIn(g, tasks)

\* C26: when close returns the Agent has no HTTP client; close called on an
\* Agent without one returns at once and changes nothing; and register,
\* authenticate and request called on an Agent without one raise
\* RuntimeError at once, sending nothing, whatever token the credential
\* holds.
C26_CloseStep ==
    /\ (outcome'.op = "close" /\ outcome'.result = "returned") => ~http_client'
    /\ (CloseCalled /\ ~http_client)
       => (outcome' = Returned("close", None) /\ NothingDone)
    /\ (RegisterCalled /\ ~http_client)
       => (outcome' = Raised("register", "RuntimeError") /\ NothingDone)
    /\ (AuthenticateCalled /\ ~http_client)
       => (outcome' = AuthenticateEnded("raised", Error("RuntimeError"), 0) /\ NothingDone)
    /\ (RequestCalled /\ ~http_client)
       => (outcome' = Raised("request", "RuntimeError") /\ NothingDone)

C26_ClosedAgentRefuses == [][C26_CloseStep]_vars

\* authenticate refused on a closed Agent whose cached token is valid.
C26_Witness ==
    /\ outcome = AuthenticateEnded("raised", Error("RuntimeError"), 0)
    /\ ~http_client
    /\ discovery # None
    /\ credential # None
    /\ is_token_valid(credential)

\* The connect calls a step starts.
ConnectEntered ==
    {g \in BagToSet(tasks') : g.op = "connect" /\ CopiesIn(g, tasks') > CopiesIn(g, tasks)}

\* C25: connect called with the service URL, or with that URL followed by
\* slashes, sets the same base_url, the URL without the slashes, under
\* which the credential store looks up the same entry; when the store
\* holds a credential for the service, the Agent's credential after connect
\* is the store's.
C25_ConnectStep ==
    \A g \in ConnectEntered :
        /\ g.url \in ServiceUrls
        /\ base_url' = Some(ServiceUrl)
        /\ normalize(base_url'.value) = normalize(g.url)
        /\ get(g.url) = get(ServiceUrl)
        /\ (saved # None /\ credential = None) => credential' = saved
        /\ saved # None => (credential' # None /\ credential'.service_url = base_url'.value)

C25_ConnectNormalizesUrl == [][C25_ConnectStep]_vars

\* A connect with a trailing slash that adopted the stored credential.
C25_Witness ==
    /\ \E g \in BagToSet(tasks) :
          g.op = "connect" /\ g.url = ServiceUrl \o "/"
    /\ base_url = Some(ServiceUrl)
    /\ started = 1
    /\ credential # None
    /\ credential = saved

\* The URLs that name the same service as url.
SameService(url) == {u \in AskedUrls : rstrip(u, "/") = rstrip(url, "/")}

\* After every call the two stores hold the same items,
\* in the same order, under keys that do not end in a slash, and the call
\* just made returned the same from both.
StoresAgree ==
    /\ memory = FileCredentialStore_load
    /\ \A i \in DOMAIN memory : memory[i].key = rstrip(memory[i].key, "/")
    /\ answers.op # "none" => answers.memory = answers.file

\* C27 (each call): after save, get under every URL naming the service of
\* the saved credential returns that credential from both stores; after
\* delete, get under every URL naming the deleted service returns none from
\* both; delete of a service the stores do not hold leaves what they hold
\* as it is.
C27_StoreStep ==
    /\ StoresAgree'
    /\ answers'.op = "save" =>
          \A url \in SameService(answers'.arg.service_url) :
              /\ InMemoryCredentialStore_get(url)' = answers'.arg
              /\ FileCredentialStore_get(url)' = answers'.arg
    /\ answers'.op = "delete" =>
          /\ \A url \in SameService(answers'.arg.url) :
                /\ InMemoryCredentialStore_get(url)' = None
                /\ FileCredentialStore_get(url)' = None
          /\ InMemoryCredentialStore_get(answers'.arg.url) = None =>
                /\ memory' = memory
                /\ FileCredentialStore_load' = FileCredentialStore_load

C27_StoresAreEquivalent == [][C27_StoreStep]_vars

\* A credential saved under a URL ending in slashes and returned by both
\* stores under another way of writing that URL.
C27_Witness ==
    /\ answers.op = "get"
    /\ answers.arg.url = ServiceUrl \o "/"
    /\ answers.memory # None
    /\ answers.memory.service_url = ServiceUrl \o "//"
    /\ answers.file = answers.memory
    /\ Len(memory) = 2

\* ------------------------------------------------------------------------
\* C28
\* ------------------------------------------------------------------------
\* The document the configuration calls for.
Announced ==
    [agentdoor_version |-> "0.1",
     service_name |-> config.service_name,
     registration_endpoint |-> config.route_prefix \o "/register",
     verification_endpoint |-> config.route_prefix \o "/register/verify",
     auth_endpoint |-> config.route_prefix \o "/auth",
     scopes |-> [i \in DOMAIN config.scopes |->
                    [name |-> config.scopes[i], description |-> ""]],
     token_ttl_seconds |-> config.token_ttl_seconds]

C28_DiscoveryStep ==
    response'.op = "discovery" =>
        /\ response'.status = 200
        /\ response'.body = Announced
        /\ routes[response'.body.registration_endpoint] = "register"
        /\ routes[response'.body.verification_endpoint] = "verify"
        /\ routes[response'.body.auth_endpoint] = "auth"
        /\ UNCHANGED <<config, discovery_doc, store>>

\* C28: whatever register, verify, auth and guarded requests came before, a
\* GET of /.well-known/agentdoor.json is routed to the discovery handler,
\* whatever the route prefix, and is answered 200 with version "0.1", the
\* configured service name, scopes and token lifetime, and the three
\* endpoints at the route prefix followed by /register, /register/verify
\* and /auth, where those handlers are mounted.
C28_DiscoveryIsFixed ==
    /\ [](WellKnownPath \in DOMAIN routes /\ routes[WellKnownPath] = "discovery")
    /\ [](discovery_doc = Announced)
    /\ [][C28_DiscoveryStep]_vars

\* The document is fetched from a gate under a prefix of its own after an
\* agent was enrolled and a token issued.
C28_Witness ==
    /\ response.op = "discovery"
    /\ response.body.registration_endpoint = "/custom/auth/register"
    /\ agents # EmptyMap
    /\ tokens # EmptyMap

\* ------------------------------------------------------------------------
\* C29
\* ------------------------------------------------------------------------
C29_PendingStep ==
    /\ \A r \in DOMAIN pending :
           IF r \in DOMAIN pending'
           THEN pending'[r] = pending[r]
           ELSE /\ response'.op = "verify"
                /\ response'.status = 200
                /\ origin'[response'.body.agent_id].registration_id = r
                /\ now' = now
    /\ \A body \in VerifyRequests :
           (body.registration_id \in DOMAIN pending
                /\ CarriesProof(body)
                /\ handle_verify(body))
               => Suspending

\* C29: a PendingRegistration leaves the store only in the step that answers
\* 200 to a verify of its registration_id; the clock, register, a failed
\* verify, auth and guarded requests leave it in place and unchanged, and at
\* any time a verify carrying its challenge and a valid signature passes the
\* checks and goes on to complete_registration.
C29_PendingIsNeverExpired == [][C29_PendingStep]_vars

\* A verify is rejected at the latest time of the clock and the
\* registration it names is still pending.
C29_Witness ==
    /\ now = MaxClock
    /\ response.op = "verify"
    /\ response.status \in {400, 401}
    /\ pending # EmptyMap

\* ------------------------------------------------------------------------
\* python-sdk, crypto.py
\*
\* A byte string is its kind, its length and what it was made from.  A
\* base64 text is a sequence of characters in which a whole run of
\* characters of the base64 alphabet is one element: the run encodes one
\* byte string, and is padded to a multiple of four characters or cut short
\* of it.  Ed25519 is ideal: a signature verifies under the public key of
\* the seed that made it and the message it was made over, and under
\* nothing else.
\* ------------------------------------------------------------------------
Messages == {"hello", "tampered"}

Bytes(kind, length, seed, message) ==
    [kind |-> kind, length |-> length, seed |-> seed, message |-> message]

NoBytes == Bytes("empty", 0, 0, "")

\* message.encode("utf-8")
encode(message) == Bytes("text", Len(message), 0, message)

\* SigningKey.generate(), the k-th draw: signing_key.encode()
SigningKey_generate(k) == Bytes("seed", 32, k, "")

\* signing_key.verify_key.encode()
verify_key(signing_key) == Bytes("public", 32, signing_key.seed, "")

\* signing_key.sign(message).signature
SigningKey_sign(signing_key, message_bytes) ==
    Bytes("signature", 64, signing_key.seed, message_bytes.message)

\* VerifyKey(public_key_bytes).verify(message, signature) does not raise.
VerifyKey_verify(public_key_bytes, message_bytes, signature_bytes) ==
    /\ public_key_bytes.kind = "public"
    /\ public_key_bytes.length = 32
    /\ signature_bytes.kind = "signature"
    /\ signature_bytes.length = 64
    /\ signature_bytes.seed = public_key_bytes.seed
    /\ signature_bytes.message = message_bytes.message

\* A run of characters of the base64 alphabet.
Base64Run(bytes, padded) == [alphabet |-> TRUE, bytes |-> bytes, padded |-> padded]

\* A character outside the base64 alphabet, such as "!" or a line feed.
NonAlphabet == [alphabet |-> FALSE, bytes |-> NoBytes, padded |-> FALSE]

\* base64.b64encode(bytes).decode("ascii")
b64encode(bytes) == <<Base64Run(bytes, TRUE)>>

\* base64.b64decode(text), validate left False: the characters outside the
\* alphabet are discarded, then the padding is checked.  A text holds at
\* most one run.
b64decode(text) ==
    LET kept == SelectSeq(text, LAMBDA c : c.alphabet)
    IN  IF kept = <<>> THEN [raised |-> FALSE, bytes |-> NoBytes]
        ELSE IF ~kept[1].padded THEN [raised |-> TRUE, bytes |-> NoBytes]
        ELSE [raised |-> FALSE, bytes |-> kept[1].bytes]

\* generate_keypair(), SigningKey.generate() making its k-th draw
generate_keypair(k) ==
    LET signing_key == SigningKey_generate(k)
    IN  [public_key |-> b64encode(verify_key(signing_key)),
         secret_key |-> b64encode(signing_key)]

\* sign_message(message, secret_key_b64); nothing is caught.
sign_message(message, secret_key_b64) ==
    LET secret_key_bytes == b64decode(secret_key_b64)
    IN  IF secret_key_bytes.raised \/ secret_key_bytes.bytes.length # 32
        THEN [raised |-> TRUE, signature |-> <<>>]
        ELSE [raised |-> FALSE,
              signature |-> b64encode(SigningKey_sign(secret_key_bytes.bytes,
                                                      encode(message)))]

\* The body of the try block of verify_signature runs to `return True`.
verify_signature_tried(message, signature_b64, public_key_b64) ==
    LET public_key_bytes == b64decode(public_key_b64)
        signature_bytes == b64decode(signature_b64)
    IN  /\ ~public_key_bytes.raised
        /\ ~signature_bytes.raised
        /\ VerifyKey_verify(public_key_bytes.bytes, encode(message), signature_bytes.bytes)

\* verify_signature(message, signature_b64, public_key_b64) of the SDK:
\* `except Exception: return False`.
crypto_verify_signature(message, signature_b64, public_key_b64) ==
    [raised |-> FALSE,
     valid |-> verify_signature_tried(message, signature_b64, public_key_b64)]

\* The keypairs drawn so far.
Keypairs == {generate_keypair(k) : k \in 1..keypairs}

\* A text as it is, followed by a character outside the alphabet, and cut
\* short of its padding.
Altered(text) ==
    {text, text \o <<NonAlphabet>>, <<[text[1] EXCEPT !.padded = FALSE]>>}

PublicKeyTexts == UNION {Altered(pair.public_key) : pair \in Keypairs}

SecretKeyTexts == UNION {Altered(pair.secret_key) : pair \in Keypairs}

SignatureTexts ==
    UNION {Altered(sign_message(m, pair.secret_key).signature) :
               m \in Messages, pair \in Keypairs}
    \cup {<<NonAlphabet>>}

call_generate_keypair ==
    /\ keypairs < MaxKeypairs
    /\ keypairs' = keypairs + 1
    /\ verdict' = [op |-> "generate_keypair", pair |-> generate_keypair(keypairs + 1)]

call_sign_message(message, secret_key_b64) ==
    /\ verdict' = [op |-> "sign_message", message |-> message,
                   secret_key |-> secret_key_b64,
                   returned |-> sign_message(message, secret_key_b64)]
    /\ UNCHANGED keypairs

call_verify_signature(message, signature_b64, public_key_b64) ==
    /\ verdict' = [op |-> "verify_signature", message |-> message,
                   signature |-> signature_b64, public_key |-> public_key_b64,
                   returned |-> crypto_verify_signature(message, signature_b64,
                                                        public_key_b64)]
    /\ UNCHANGED keypairs

NextCrypto ==
    \/ call_generate_keypair /\ UNCHANGED <<gate, now, agent, shelf, wire>>
    \/ (\E m \in Messages, sk \in SecretKeyTexts : call_sign_message(m, sk))
           /\ UNCHANGED <<gate, now, agent, shelf, wire>>
    \/ (\E m \in Messages, s \in SignatureTexts, pk \in PublicKeyTexts :
            call_verify_signature(m, s, pk))
           /\ UNCHANGED <<gate, now, agent, shelf, wire>>

SpecCrypto == Init /\ [][NextCrypto]_vars

\* ------------------------------------------------------------------------
\* C30
\* ------------------------------------------------------------------------
\* The public key is that of a keypair drawn by generate_keypair and the
\* signature is what sign_message returns for the message under the secret
\* key of that keypair.
Genuine(message, signature_b64, public_key_b64) ==
    \E pair \in Keypairs :
        /\ public_key_b64 = pair.public_key
        /\ signature_b64 = sign_message(message, pair.secret_key).signature

\* C30: verify_signature never raises; it returns True for a message, the
\* signature sign_message made over it and the public key of the signing
\* keypair, and False once the message, the signature or the public key is
\* replaced by any other value, one that cannot be decoded included.
C30_VerifyIsRoundTripSound ==
    verdict.op = "verify_signature" =>
        /\ ~verdict.returned.raised
        /\ verdict.returned.valid
               <=> Genuine(verdict.message, verdict.signature, verdict.public_key)

\* ------------------------------------------------------------------------
\* The Agent against the gate, over a reliable connection
\*
\* The Agent's HTTP client and the gate's application are joined by a
\* connection that delivers every request and every response, once and
\* unchanged.  The Agent drives one call at a time; `wire` is what the
\* connection carries: nothing, a request on its way to the gate, a request
\* whose handler is suspended at a store await, or the response on its way
\* back.  The clock is the one clock of the machine both run on.  The
\* Ed25519 operations are those of the gate's model: the Agent's signature
\* under the secret key of a keypair is the signature the gate verifies
\* under the public key of that keypair.
\* ------------------------------------------------------------------------
\* AgentConfig.agent_name
AgentName == "agentdoor-python-sdk"

\* client.get(url) / client.post(url, json=body)
Sent(method, path, body) ==
    [kind |-> "request", method |-> method, path |-> path, body |-> body]

\* The request is with a handler suspended at a store await.
Taken(sent) == [sent EXCEPT !.kind = "taken"]

\* The response the application sends for what the handler returned or raised.
Replied(resp) ==
    [kind |-> "response", status |-> resp.status, detail |-> resp.detail,
     body |-> resp.body]

\* parse_discovery_document(data)
parse_discovery_document(data) ==
    [agentdoor_version |-> data.agentdoor_version,
     service_name |-> data.service_name,
     registration_endpoint |-> data.registration_endpoint,
     verification_endpoint |-> data.verification_endpoint,
     auth_endpoint |-> data.auth_endpoint,
     scopes |-> [i \in DOMAIN data.scopes |->
                    [name |-> data.scopes[i].name,
                     description |-> data.scopes[i].description]],
     token_ttl_seconds |-> data.token_ttl_seconds,
     raw |-> data]

\* sign_message(message, secret_key): the signature of the keypair the
\* secret key belongs to.
sign_with(message, secret_key) ==
    sign(message, CHOOSE pk \in PublicKeys : SecretKey(pk) = secret_key)

\* reg_payload of Agent.register
reg_payload(frame) ==
    [agent_name |-> AgentName, public_key |-> frame.public_key, scopes |-> frame.scopes]

\* verify_payload of Agent.register, reg_data the registration response
verify_payload(frame, reg_data) ==
    [registration_id |-> reg_data.registration_id,
     challenge |-> reg_data.challenge,
     signature |-> sign_with(reg_data.challenge, SecretKey(frame.public_key))]

\* Variant: the timestamp is sent without a signature over it.
auth_payload_unsigned(cred) ==
    [agent_id |-> cred.agent_id, api_key |-> cred.api_key.value,
     timestamp |-> ToString(WholeSeconds(now)), signature |-> Undecodable]

\* auth_payload of Agent.authenticate: timestamp = str(int(time.time()))
auth_payload(cred) ==
    LET timestamp == ToString(WholeSeconds(now))
    IN  [agent_id |-> cred.agent_id, api_key |-> cred.api_key.value,
         timestamp |-> timestamp,
         signature |-> sign_with(timestamp, cred.secret_key)]

\* The call just made is suspended at its first await.
Posting == tasks' # tasks

\* The frame of the call that is suspended after the step.
Posted == CHOOSE frame \in BagToSet(tasks') : TRUE

\* The response on the wire as the HTTP client hands it over; json is
\* response.json() of a response that is not an error.
Received(json) ==
    HttpResponse(wire.status, IF wire.status = 200 THEN json ELSE None)

session_connect(url) ==
    /\ wire = Idle
    /\ connect(url)
    /\ wire' = Sent("GET", WellKnownPath, None)

session_connect_discovered ==
    /\ wire.kind = "response"
    /\ \E frame \in Awaiting("connect", "discover") :
           connect_discovered(frame, Received(parse_discovery_document(wire.body)))
    /\ wire' = Idle

session_register(scopes) ==
    /\ wire = Idle
    /\ register(scopes)
    /\ wire' = IF Posting
               THEN Sent("POST", discovery.registration_endpoint, reg_payload(Posted))
               ELSE Idle

session_register_posted ==
    /\ wire.kind = "response"
    /\ \E frame \in Awaiting("register", "post_register") :
           /\ register_posted(frame, Received(wire.body))
           /\ wire' = IF tasks' # EmptyBag
                      THEN Sent("POST", discovery.verification_endpoint,
                                verify_payload(frame, wire.body))
                      ELSE Idle

session_register_verified ==
    /\ wire.kind = "response"
    /\ \E frame \in Awaiting("register", "post_verify") :
           register_verified(frame, Received(wire.body))
    /\ wire' = Idle

session_authenticate ==
    /\ wire = Idle
    /\ authenticate
    /\ wire' = IF Posting
               THEN Sent("POST", discovery.auth_endpoint, auth_payload(credential))
               ELSE Idle

\* auth_data.get("expires_in", ...): the response of the gate has the key.
session_authenticate_posted ==
    /\ wire.kind = "response"
    /\ \E frame \in Awaiting("authenticate", "post_auth") :
           authenticate_posted(frame,
               Received([token |-> wire.body.token,
                         expires_in |-> Some(wire.body.expires_in)]))
    /\ wire' = Idle

\* The request on the wire is routed to this handler.
Routed(handler) ==
    /\ wire.kind = "request"
    /\ wire.path \in DOMAIN routes
    /\ routes[wire.path] = handler

\* The handler has answered, or is suspended at its second store await.
Served ==
    wire' = IF BagCardinality(calls') > BagCardinality(calls)
            THEN Taken(wire)
            ELSE Replied(response')

serve_discovery ==
    /\ Routed("discovery")
    /\ handle_discovery(wire.path)
    /\ Served

serve_register ==
    /\ Routed("register")
    /\ handle_register(wire.body)
    /\ Served

serve_verify ==
    /\ Routed("verify")
    /\ handle_verify(wire.body)
    /\ Served

serve_verify_complete ==
    /\ wire.kind = "taken"
    /\ \E frame \in Suspended("verify") : handle_verify_complete(frame)
    /\ Served

serve_auth ==
    /\ Routed("auth")
    /\ handle_auth(wire.body)
    /\ Served

serve_auth_complete ==
    /\ wire.kind = "taken"
    /\ \E frame \in Suspended("auth") : handle_auth_complete(frame)
    /\ Served

\* The gate of the test application or the gate under a prefix of its own,
\* and an Agent with an empty credential store.
InitSession ==
    /\ \E cfg \in {ServiceConfig, CustomConfig} : Constructed(cfg)
    /\ AgentConstructed(None)
    /\ StoresConstructed(None) /\ CryptoLoaded /\ Unwired

\* The calls on the Agent, the handlers serving them, requests to guarded
\* routes of the application, and the clock.
NextSession ==
    \/ (\E url \in ServiceUrls : session_connect(url)) /\ UNCHANGED <<gate, now, shelf, crypto>>
    \/ session_connect_discovered /\ UNCHANGED <<gate, now, shelf, crypto>>
    \/ (\E scopes \in RequestedScopes : session_register(scopes))
           /\ UNCHANGED <<gate, now, shelf, verdict>>
    \/ session_register_posted /\ UNCHANGED <<gate, now, shelf, crypto>>
    \/ session_register_verified /\ UNCHANGED <<gate, now, shelf, crypto>>
    \/ session_authenticate /\ UNCHANGED <<gate, now, shelf, crypto>>
    \/ session_authenticate_posted /\ UNCHANGED <<gate, now, shelf, crypto>>
    \/ serve_discovery /\ UNCHANGED <<agent, shelf, crypto>>
    \/ serve_register /\ UNCHANGED <<agent, shelf, crypto>>
    \/ serve_verify /\ UNCHANGED <<agent, shelf, crypto>>
    \/ serve_verify_complete /\ UNCHANGED <<agent, shelf, crypto>>
    \/ serve_auth /\ UNCHANGED <<agent, shelf, crypto>>
    \/ serve_auth_complete /\ UNCHANGED <<agent, shelf, crypto>>
    \/ (\E req \in GuardedRequests : agent_required(req)) /\ UNCHANGED <<agent, shelf, crypto, wire>>
    \/ (\E frame \in Suspended("guard") : agent_required_complete(frame))
           /\ UNCHANGED <<agent, shelf, crypto, wire>>
    \/ AgentTick

SpecSession == InitSession /\ [][NextSession]_vars

\* ------------------------------------------------------------------------
\* C24
\* ------------------------------------------------------------------------
\* The Agent's credential and the gate agree, and the credential store
\* holds the credential under the normalized URL of the service.
Agreed(cred) ==
    /\ cred.agent_id \in DOMAIN agents
    /\ LET record == agents[cred.agent_id]
           proof == origin[cred.agent_id]
       IN  /\ record.agent_id = cred.agent_id
           /\ record.api_key = cred.api_key.value
           /\ record.public_key = cred.public_key
           /\ get_agent_by_api_key(cred.api_key.value) = record
           /\ proof.challenge = enrolled[proof.registration_id].challenge
           /\ proof.signature = sign_with(proof.challenge, cred.secret_key)
    /\ cred.service_url = normalize(cred.service_url)
    /\ \A url \in ServiceUrls :
           normalize(url) = cred.service_url => get(url) = cred

\* The token the Agent holds.
Held == credential.token.value

\* The guarded request presents the token the Agent holds and is made of a
\* route that asks for no scope.
Presents(req) ==
    /\ req.scopes = <<>>
    /\ req.headers = [h \in {"Authorization"} |-> "Bearer " \o Held]

\* The gate answers the auth request on the wire.
AuthAnswered ==
    /\ wire.kind \in {"request", "taken"}
    /\ wire'.kind = "response"
    /\ response'.op = "auth"

C24_SessionStep ==
    \* the gate turns an auth request of the Agent down only for its age
    /\ (AuthAnswered /\ response'.status # 200)
           => /\ response'.detail = "Timestamp outside acceptable range"
              /\ Abs(WholeSeconds(now) - IntLiterals[wire.body.timestamp])
                     > config.max_timestamp_drift
    \* the token it issues is the Agent's own and is in its store, expiring
    \* no later than the configured lifetime after the response
    /\ (AuthAnswered /\ response'.status = 200)
           => LET t == response'.body.token
              IN  /\ t \in DOMAIN tokens'
                  /\ tokens'[t].agent_id = credential.agent_id
                  /\ tokens'[t].expires_at <= now + config.token_ttl_seconds * TicksPerSec
    \* authenticate returns the token the gate issued and keeps it
    /\ (tasks' # tasks /\ outcome'.op = "authenticate" /\ outcome'.result = "returned")
           => /\ outcome'.value = Some(wire.body.token)
              /\ credential'.token = outcome'.value
              /\ saved' = credential'
    \* a token stays with the gate until it has expired
    /\ \A t \in DOMAIN tokens :
           t \notin DOMAIN tokens' => now >= tokens[t].expires_at
    \* and until then the guard admits the token the Agent holds
    /\ (has_api_key(credential) /\ credential.token # None)
           => /\ \A req \in GuardedRequests :
                     (Presents(req) /\ agent_required(req)
                          /\ Held \in DOMAIN tokens /\ now < tokens[Held].expires_at)
                         => BagCardinality(calls') > BagCardinality(calls)
              /\ \A frame \in Suspended("guard") :
                     (frame.token_record.token = Held /\ agent_required_complete(frame))
                         => /\ response'.status = 200
                            /\ response'.body.agent_id = credential.agent_id

\* C24: once register has succeeded against the gate over a reliable
\* connection, the gate holds an AgentRecord with the credential's
\* agent_id, api_key and public_key, the challenge was signed with the
\* credential's secret key, and the credential store returns the credential
\* for the service URL, with or without trailing slashes; an authenticate
\* that follows is turned down only when its timestamp is older than the
\* gate allows, and the token it returns is in the gate's store until it
\* expires and is admitted by the guard until then, as the Agent's agent_id.
C24_CredentialAndGateAgree ==
    /\ [](has_api_key(credential) => Agreed(credential))
    /\ []((outcome.op = "register" /\ outcome.result = "returned")
              => (outcome.value = credential /\ has_api_key(credential)))
    /\ [][C24_SessionStep]_vars

\* Register and authenticate have succeeded, and the guard has admitted the
\* token the Agent holds as the Agent's agent_id.
C24_Witness ==
    /\ has_api_key(credential)
    /\ saved = credential
    /\ credential.token = Some("agt_1")
    /\ response.op = "guard"
    /\ response.status = 200
    /\ response.body.agent_id = credential.agent_id

\* ------------------------------------------------------------------------
\* The api_key comparison of the auth handler, with the time it takes
\*
\* `agent_record.api_key != body.api_key` is the comparison of two str
\* objects.  It answers at once when the lengths differ; otherwise it
\* compares the characters with memcmp, which may stop at the first
\* character that differs or read on, to the end at most: the number of
\* characters examined is any number from the position of the first
\* difference to the length.  An api_key is "ak_" followed by KeyLength
\* characters, written here as the sequence of those characters.
\* ------------------------------------------------------------------------
KeyCharacters == {"a", "b"}

\* The api_keys of the store.
StoredKeys == [1..KeyLength -> KeyCharacters]

\* The api_keys of auth requests: of the stored length or shorter.
SubmittedKeys == UNION {[1..n -> KeyCharacters] : n \in 1..KeyLength}

\* The position of the first character in which two strings of equal
\* length differ, the length when they are equal.
first_difference(a, b) ==
    IF a = b THEN Len(a)
    ELSE CHOOSE i \in 1..Len(a) :
             /\ a[i] # b[i]
             /\ \A j \in 1..(i - 1) : a[j] = b[j]

\* The numbers of characters a != b may examine.
ne_examined(a, b) ==
    IF Len(a) # Len(b) THEN {0}
    ELSE first_difference(a, b)..Len(a)

\* if agent_record.api_key != body.api_key: raise HTTPException(401, ...)
compare_api_key(stored, submitted) ==
    /\ \E examined \in ne_examined(stored, submitted) :
           verdict' = [op |-> "compare_api_key", stored |-> stored,
                       submitted |-> submitted,
                       rejected |-> stored # submitted,
                       examined |-> examined]
    /\ UNCHANGED keypairs

NextCompare ==
    (\E stored \in StoredKeys, submitted \in SubmittedKeys :
         compare_api_key(stored, submitted))
        /\ UNCHANGED <<gate, now, agent, shelf, wire>>

SpecCompare == Init /\ [][NextCompare]_vars

\* ------------------------------------------------------------------------
\* C31
\* ------------------------------------------------------------------------
\* C31: the time the auth handler takes to reject a wrong api_key does not
\* depend on how many of its leading characters are right: every wrong
\* api_key of the same length, whatever its common prefix with the stored
\* one, takes the time the rejected one took.
C31_ApiKeyComparisonIsConstantTime ==
    (verdict.op = "compare_api_key" /\ verdict.rejected)
        => \A other \in SubmittedKeys :
               (other # verdict.stored /\ Len(other) = Len(verdict.submitted))
                   => ne_examined(verdict.stored, other) = {verdict.examined}

\* ------------------------------------------------------------------------
\* is_timestamp_valid on its own
\* ------------------------------------------------------------------------
\* The strings handed to is_timestamp_valid: integers in the forms int()
\* accepts, and strings int() raises ValueError on.
TimestampStrings == DOMAIN IntLiterals \cup {"soon", "", "1.5"}

call_is_timestamp_valid(timestamp, max_drift_seconds) ==
    /\ verdict' = [op |-> "is_timestamp_valid", timestamp |-> timestamp,
                   max_drift_seconds |-> max_drift_seconds,
                   valid |-> is_timestamp_valid(timestamp, max_drift_seconds)]
    /\ UNCHANGED <<keypairs, now>>

\* The server clock, with no call returning.
ClockTick ==
    /\ now < MaxClock
    /\ now' = now + 1
    /\ verdict' = [op |-> "none"]
    /\ UNCHANGED keypairs

NextTimestamp ==
    \/ (\E s \in TimestampStrings, d \in 0..MaxDrift : call_is_timestamp_valid(s, d))
           /\ UNCHANGED <<gate, agent, shelf, wire>>
    \/ ClockTick /\ UNCHANGED <<gate, agent, shelf, wire>>

SpecTimestamp == Init /\ [][NextTimestamp]_vars

\* ------------------------------------------------------------------------
\* C32
\* ------------------------------------------------------------------------
\* The integer the string denotes lies d whole seconds from the server
\* clock, in the past or in the future.
Away(timestamp, d) ==
    \/ IntLiterals[timestamp] = now \div TicksPerSec - d
    \/ IntLiterals[timestamp] = now \div TicksPerSec + d

\* C32: is_timestamp_valid is false for a string that is no integer, and for
\* an integer it is true exactly when the integer lies at most max_drift
\* whole seconds from the server clock, on either side: exactly max_drift
\* away is accepted, max_drift + 1 away is rejected.
C32_TimestampWindow ==
    verdict.op = "is_timestamp_valid" =>
        IF verdict.timestamp \in {"soon", "", "1.5"}
        THEN ~verdict.valid
        ELSE /\ verdict.valid <=> \E d \in 0..verdict.max_drift_seconds :
                                      Away(verdict.timestamp, d)
             /\ Away(verdict.timestamp, verdict.max_drift_seconds) => verdict.valid
             /\ Away(verdict.timestamp, verdict.max_drift_seconds + 1) => ~verdict.valid

\* A timestamp exactly max_drift seconds in the past has been accepted, the
\* drift not being zero.
C32_Witness ==
    /\ verdict.op = "is_timestamp_valid"
    /\ verdict.timestamp \in DOMAIN IntLiterals
    /\ verdict.max_drift_seconds > 0
    /\ IntLiterals[verdict.timestamp] = now \div TicksPerSec - verdict.max_drift_seconds
    /\ verdict.valid

\* ------------------------------------------------------------------------
\* python-sdk, agent.py: one Agent, two services
\* ------------------------------------------------------------------------
\* The Agent of SpecAgent, which may also connect to a second service.
\* The credential store starts empty, so that it never holds more than the
\* one credential the Agent has.

NextRoaming ==
    \/ connect(OtherUrl) /\ UNCHANGED <<gate, now, shelf, crypto, wire>>
    \/ NextAgent

SpecRoaming == Init /\ [][NextRoaming]_vars

\* C33: after any sequence of connect, register, authenticate and request
\* calls on one Agent, the current credential, when there is one, belongs to
\* the service the Agent is connected to: its service_url is base_url.
C33_CredentialBelongsToConnectedService ==
    (tasks = EmptyBag /\ credential # None /\ base_url # None)
        => credential.service_url = base_url.value

\* The connect calls that end raising in this step.
ConnectRaised ==
    {g \in BagToSet(tasks) :
        /\ g.op = "connect"
        /\ CopiesIn(g, tasks') < CopiesIn(g, tasks)
        /\ outcome' = Raised("connect", "HTTPStatusError")}

\* C34: a connect call that fails because discovery raised leaves the Agent
\* not connected, or bound to the base_url it had before the call (the
\* discovery document and the credential are those of that connection).
C34_FailedConnectStep ==
    \A g \in ConnectRaised : unconnected' \/ base_url' = g.was

C34_FailedConnectLeavesNoMixture == [][C34_FailedConnectStep]_vars

\* C35: in every reachable state of the gate, the agent_id of every
\* TokenRecord names an existing AgentRecord and the token's scopes are that
\* record's scopes; the guard never answers 401 "Agent not found".
C35_TokensNameAgents ==
    /\ \A t \in DOMAIN tokens :
           /\ tokens[t].agent_id \in DOMAIN agents
           /\ tokens[t].scopes = agents[tokens[t].agent_id].scopes
    /\ \A frame \in BagToSet(calls) :
           frame.op \in {"auth", "guard"} =>
               /\ frame.token_record.agent_id \in DOMAIN agents
               /\ frame.token_record.scopes = agents[frame.token_record.agent_id].scopes
    /\ response # HTTPException("guard", 401, "Agent not found")

\* A token is stored and the guard has looked its agent up and let the
\* request through.
C35_Witness ==
    /\ tokens # EmptyMap
    /\ response.op = "guard" /\ response.status = 200
    /\ response.body.agent_id \in {tokens[t].agent_id : t \in DOMAIN tokens}

\* ------------------------------------------------------------------------
\* middleware.py: the auth endpoint asked more than once
\* ------------------------------------------------------------------------
\* The gate of Spec without its guarded routes, issuing up to MaxReplays
\* tokens more, so that a request can be presented again after it was
\* answered.
NextReplay ==
    \/ (\E body \in RegistrationRequests : handle_register(body)) /\ UNCHANGED <<agent, shelf, crypto, wire>>
    \/ (\E body \in VerifyRequests : handle_verify(body)) /\ UNCHANGED <<agent, shelf, crypto, wire>>
    \/ (\E frame \in Suspended("verify") : handle_verify_complete(frame)) /\ UNCHANGED <<agent, shelf, crypto, wire>>
    \/ (\E body \in AuthRequests : handle_auth_upto(body, MaxTokens + MaxReplays)) /\ UNCHANGED <<agent, shelf, crypto, wire>>
    \/ (\E frame \in Suspended("auth") : handle_auth_complete(frame)) /\ UNCHANGED <<agent, shelf, crypto, wire>>
    \/ Tick /\ UNCHANGED <<agent, shelf, crypto, wire>>

SpecReplay == Init /\ [][NextReplay]_vars

\* The auth request accepted in this step is not the one a stored token was
\* issued for.
C36_ReplayStep ==
    \A t \in DOMAIN issued' \ DOMAIN issued :
        \A u \in DOMAIN tokens : issued[u] # issued'[t]

\* C36: an accepted auth request cannot be replayed: once a token is issued
\* and stored for a request body (agent_id, api_key, timestamp, signature),
\* a second auth request with the same body is not accepted.
C36_AuthRequestIsNotReplayed == [][C36_ReplayStep]_vars

\* ------------------------------------------------------------------------
\* The lifetime of a token, seen by the Agent and by the gate
\* ------------------------------------------------------------------------
\* The session of SpecSession with a gate whose tokens live longer than the
\* margin is_token_valid keeps, on a clock that runs until such a token has
\* expired at the gate.

\* token_ttl_seconds two seconds above the margin of is_token_valid.
LeaseConfig == [ServiceConfig EXCEPT !.token_ttl_seconds = TokenMargin + 2]

\* The clock stops here: a token issued in the first seconds and received
\* within the margin has expired on both sides.
LeaseClock == (TokenMargin + 4) * TicksPerSec

\* time.time() when _handle_auth computed the expires_at of the record.
issued_at(record) == record.expires_at - config.token_ttl_seconds * TicksPerSec

\* The token records whose auth response the Agent is still waiting for:
\* held by the handler at its store await, or named in the response on
\* the wire.
Undelivered ==
    IF Awaiting("authenticate", "post_auth") = {} THEN {}
    ELSE {frame.token_record : frame \in Suspended("auth")}
         \cup (IF wire.kind = "response" /\ wire.status = 200
               THEN {tokens[t] : t \in {wire.body.token} \cap DOMAIN tokens}
               ELSE {})

\* The clock; an auth response reaches the Agent less than TokenMargin
\* seconds after the token was issued.
LeaseTick ==
    /\ now < LeaseClock
    /\ \A record \in Undelivered :
           (now + 1) - issued_at(record) < TokenMargin * TicksPerSec
    /\ now' = now + 1
    /\ response' = NoResponse
    /\ outcome' = NoOutcome
    /\ UNCHANGED <<config, discovery_doc, store, drawn, calls, enrolled, origin, issued>>
    /\ UNCHANGED <<http_client, base_url, discovery, credential, saved, tasks, started>>
    /\ UNCHANGED <<shelf, crypto, wire>>

\* authenticate is called while the clock shows a second the gate's model
\* of int() reads back.
lease_authenticate ==
    /\ ToString(WholeSeconds(now)) \in DOMAIN IntLiterals
    /\ session_authenticate

\* The requests that bear a token, to a route guarded for no scope: the
\* guard answers them by what get_token returns.
BearerRequests ==
    {req \in GuardedRequests :
        /\ req.scopes = <<>>
        /\ "Authorization" \in DOMAIN req.headers
        /\ startswith(req.headers["Authorization"], "Bearer ")}

InitLease ==
    /\ Constructed(LeaseConfig)
    /\ AgentConstructed(None)
    /\ StoresConstructed(None) /\ CryptoLoaded /\ Unwired

NextLease ==
    \/ (\E url \in ServiceUrls : session_connect(url)) /\ UNCHANGED <<gate, now, shelf, crypto>>
    \/ session_connect_discovered /\ UNCHANGED <<gate, now, shelf, crypto>>
    \/ (\E scopes \in RequestedScopes : session_register(scopes))
           /\ UNCHANGED <<gate, now, shelf, verdict>>
    \/ session_register_posted /\ UNCHANGED <<gate, now, shelf, crypto>>
    \/ session_register_verified /\ UNCHANGED <<gate, now, shelf, crypto>>
    \/ lease_authenticate /\ UNCHANGED <<gate, now, shelf, crypto>>
    \/ session_authenticate_posted /\ UNCHANGED <<gate, now, shelf, crypto>>
    \/ serve_discovery /\ UNCHANGED <<agent, shelf, crypto>>
    \/ serve_register /\ UNCHANGED <<agent, shelf, crypto>>
    \/ serve_verify /\ UNCHANGED <<agent, shelf, crypto>>
    \/ serve_verify_complete /\ UNCHANGED <<agent, shelf, crypto>>
    \/ serve_auth /\ UNCHANGED <<agent, shelf, crypto>>
    \/ serve_auth_complete /\ UNCHANGED <<agent, shelf, crypto>>
    \/ (\E req \in BearerRequests : agent_required(req)) /\ UNCHANGED <<agent, shelf, crypto, wire>>
    \/ (\E frame \in Suspended("guard") : agent_required_complete(frame))
           /\ UNCHANGED <<agent, shelf, crypto, wire>>
    \/ LeaseTick

SpecLease == InitLease /\ [][NextLease]_vars

\* C37: with the Agent and the gate on one clock and every auth response
\* received less than 30 s after the token was issued, whenever
\* is_token_valid of the Agent's credential is true, get_token of the gate
\* returns the record of that token.
C37_ValidAtAgentIsLiveAtGate ==
    (credential # None /\ is_token_valid(credential))
        => get_token(credential.token.value) # None

\* The Agent holds a token it still takes as valid, received some seconds
\* after the gate issued it, and the gate has it.
C37_Witness ==
    /\ credential # None /\ is_token_valid(credential)
    /\ get_token(credential.token.value) # None
    /\ credential.token_expires_at.value
           >= get_token(credential.token.value).expires_at + (TokenMargin - 1) * TicksPerSec

\* ------------------------------------------------------------------------
\* C38, C39
\* ------------------------------------------------------------------------
\* The register calls that end in this step because a POST failed.
RegisterFailed ==
    {f \in BagToSet(tasks) :
        /\ f.op = "register"
        /\ CopiesIn(f, tasks') < CopiesIn(f, tasks)
        /\ outcome' = Raised("register", "HTTPStatusError")}

\* The register calls that send a POST in this step: the first POST when
\* the call is made in this step.
RegisterEntered ==
    {g \in BagToSet(tasks') : g.op = "register" /\ CopiesIn(g, tasks') > CopiesIn(g, tasks)}

\* The public keys of the keypairs register has drawn.
DrawnPublicKeys == {register_public_key(k) : k \in 1..keypairs}

\* C38: when the registration POST or the verification POST of register
\* fails, register raises, the credential stays absent (is_registered stays
\* false) and nothing is written to the credential store; a register that
\* enrolls afterwards starts at the registration POST with a keypair not
\* drawn before.
C38_RegisterStep ==
    /\ \A f \in RegisterFailed :
           /\ f.pc \in {"post_register", "post_verify"}
           /\ credential = None /\ credential' = None
           /\ ~has_api_key(credential')
           /\ saved' = saved
    /\ \A g \in RegisterEntered :
           started' = started + 1 =>
           /\ g.pc = "post_register"
           /\ g.public_key \notin DrawnPublicKeys
           /\ g.public_key \in {register_public_key(k) : k \in 1..keypairs'}

C38_FailedRegisterLeavesNothing == [][C38_RegisterStep]_vars

\* A second enrollment, with the second keypair, has failed as the first
\* did: no credential, nothing stored.
C38_Witness ==
    /\ outcome = Raised("register", "HTTPStatusError")
    /\ keypairs = 2
    /\ tasks = EmptyBag
    /\ credential = None
    /\ saved = None

\* The authenticate calls that end in this step because the auth POST
\* failed.
AuthenticateFailed ==
    {f \in BagToSet(tasks) :
        /\ f.op = "authenticate"
        /\ CopiesIn(f, tasks') < CopiesIn(f, tasks)
        /\ outcome' = AuthenticateEnded("raised", Error("HTTPStatusError"), 1)}

\* C39: when authenticate is called directly and its auth POST fails,
\* authenticate raises and leaves the credential (api_key, token,
\* token_expires_at) and the contents of the credential store as they were.
C39_AuthenticateStep ==
    \A f \in AuthenticateFailed :
        /\ credential # None /\ credential' # None
        /\ credential'.api_key = credential.api_key
        /\ credential'.token = credential.token
        /\ credential'.token_expires_at = credential.token_expires_at
        /\ credential' = credential
        /\ saved' = saved

C39_FailedAuthenticateChangesNothing == [][C39_AuthenticateStep]_vars

\* authenticate has raised on a failed POST and the Agent and the store
\* still hold the token of the earlier session, which is_token_valid no
\* longer accepts.
C39_Witness ==
    /\ outcome = AuthenticateEnded("raised", Error("HTTPStatusError"), 1)
    /\ credential # None
    /\ credential.token = Some("agt_0")
    /\ ~is_token_valid(credential)
    /\ saved = credential

====
